---- MODULE Spec2Model ----
(***************************************************************************)
(* Model of the decision engine of the Chauffage Intelligent integration   *)
(* (custom_components/chauffage_intelligent/coordinator.py): the heating   *)
(* rate learner, mode resolution, preheat computation and the update tick. *)
(*                                                                         *)
(* Units.  Time is counted in minutes.  Temperatures are tenths of a       *)
(* degree.  A heating rate computed by the code is an exact rational       *)
(* <<n, d>> (n/d degrees per hour, d > 0); a rate stored by the learner    *)
(* has been rounded to 3 decimals and is an integer number of thousandths. *)
(* Text (an event summary, a room name) is a sequence of one-character     *)
(* strings, so that lower(), strip() and replace() are computed.           *)
(***************************************************************************)
EXTENDS Integers, Sequences, FiniteSets, TLC

\* Python's None, and a present value x of a variable that may be None.  A
\* rational <<n, d>> is taken as present as it stands.
None == <<>>

Some(x) == <<x>>

\* ------------------------------------------------------------ const.py
MODE_CONFORT == "confort"
MODE_ECO == "eco"
MODE_HORS_GEL == "hors_gel"
MODE_OFF == "off"
MODES == {MODE_CONFORT, MODE_ECO, MODE_HORS_GEL, MODE_OFF}

SOURCE_CALENDAR == "calendrier"
SOURCE_PRESENCE == "presence"
SOURCE_DEFAULT == "defaut"
SOURCE_OVERRIDE == "override"
SOURCE_ANTICIPATION == "anticipation"

STATE_HOME == "home"

EVENT_ABSENCE == <<"a", "b", "s", "e", "n", "c", "e">>
EVENT_CONFORT == <<"c", "o", "n", "f", "o", "r", "t">>

\* tenths of the security factor 1.3
DEFAULT_SECURITY_FACTOR == 13
\* minutes
DEFAULT_MIN_PREHEAT_TIME == 30
\* minutes
DEFAULT_DERIVATIVE_WINDOW == 30
\* 1.0 degree per hour
DEFAULT_HEATING_RATE == <<1, 1>>

\* ------------------------------------------------------ coordinator.py
LEARNING_MIN_SAMPLES == 5
LEARNING_MAX_SAMPLES == 100
\* thousandths of a degree per hour (0.3 and 5.0)
LEARNING_RATE_MIN == 300
LEARNING_RATE_MAX == 5000
\* consigne used when the temperature map has no entry for the mode: 19
FALLBACK_CONSIGNE == 190

\* ------------------------------------------------------------ numbers
Abs(x) == IF x < 0 THEN -x ELSE x

Max(a, b) == IF a >= b THEN a ELSE b

\* a < b, a <= b for rationals <<n, d>> with d > 0
RatLT(a, b) == a[1] * b[2] < b[1] * a[2]

RatLE(a, b) == a[1] * b[2] <= b[1] * a[2]

\* a rate given in thousandths as a rational
Milli(m) == <<m, 1000>>

\* Python round(x, 3) of a rational x >= 0, as thousandths: to the nearest
\* thousandth, a tie to the even one.
round3(x) ==
    LET q == (x[1] * 1000) \div x[2]
        r == (x[1] * 1000) % x[2]
    IN  IF 2 * r < x[2] THEN q
        ELSE IF 2 * r > x[2] THEN q + 1
        ELSE IF q % 2 = 0 THEN q ELSE q + 1

\* ------------------------------------------------------------ text
UpperChars == <<"A", "B", "C", "D", "E", "F", "G", "H", "I", "J", "K", "L", "M",
                "N", "O", "P", "Q", "R", "S", "T", "U", "V", "W", "X", "Y", "Z">>

LowerChars == <<"a", "b", "c", "d", "e", "f", "g", "h", "i", "j", "k", "l", "m",
                "n", "o", "p", "q", "r", "s", "t", "u", "v", "w", "x", "y", "z">>

LowerChar(c) ==
    IF \E i \in 1..Len(UpperChars) : UpperChars[i] = c
    THEN LowerChars[CHOOSE i \in 1..Len(UpperChars) : UpperChars[i] = c]
    ELSE c

\* str.lower()
lower(s) == [i \in 1..Len(s) |-> LowerChar(s[i])]

IsSpace(c) == c \in {" ", "\t", "\n"}

\* str.strip()
strip(s) ==
    LET keep == {i \in 1..Len(s) : ~IsSpace(s[i])}
    IN  IF keep = {} THEN <<>>
        ELSE LET first == CHOOSE i \in keep : \A j \in keep : i <= j
                 last == CHOOSE i \in keep : \A j \in keep : j <= i
             IN  SubSeq(s, first, last)

\* str.startswith(prefix)
startswith(s, prefix) ==
    /\ Len(s) >= Len(prefix)
    /\ SubSeq(s, 1, Len(prefix)) = prefix

\* str.replace(old, new): the non-overlapping occurrences, left to right
RECURSIVE replace(_, _, _)
replace(s, old, new) ==
    IF Len(s) < Len(old) THEN s
    ELSE IF SubSeq(s, 1, Len(old)) = old
         THEN new \o replace(SubSeq(s, Len(old) + 1, Len(s)), old, new)
         ELSE <<Head(s)>> \o replace(Tail(s), old, new)

\* (mutant of normalize_summary: the separator " - " is left in place)
normalize_summary_with_separator(summary) == strip(lower(summary))

\* summary.lower().strip().replace(" - ", " ")
normalize_summary(summary) ==
    replace(strip(lower(summary)), <<" ", "-", " ">>, <<" ">>)

\* ------------------------------------------------------------ configuration
\* The configured rooms (coordinator.pieces), in the order of the dict.
RoomOrder == <<"bureau", "ch1">>

Rooms == {RoomOrder[i] : i \in 1..Len(RoomOrder)}

\* the text of each room id
id_text ==
    [bureau |-> <<"b", "u", "r", "e", "a", "u">>,
     ch1 |-> <<"c", "h", "1">>]

pieces ==
    [bureau |->
        [name |-> <<"B", "u", "r", "e", "a", "u">>,
         radiateurs |-> <<"climate.bureau">>,
         sonde |-> Some("sensor.bureau"),
         temperatures |-> [confort |-> 190, eco |-> 170, hors_gel |-> 70]],
     ch1 |->
        [name |-> <<"C", "h", "a", "m", "b", "r", "e">>,
         radiateurs |-> <<"climate.ch1", "climate.ch1b">>,
         sonde |-> None,
         temperatures |-> [confort |-> 180, eco |-> 160, hors_gel |-> 70]]]

VARIABLES
    now,            \* the clock dt_util.now() reads, in minutes
    learner_data,   \* HeatingRateLearner._data: room -> list of observations
    store,          \* the learner's file: readable with a history map, or corrupt
    accepted,       \* history variable: per room, every observation accepted so far
    mode_overrides, \* coordinator._mode_overrides: room -> [mode, expiry], a dict
    temp_history,   \* coordinator._temp_history: room -> list of <<time, temperature>>
    previous_modes, \* coordinator._previous_modes: room -> mode, a dict
    tick,           \* the _async_update_data call in progress, the ticks begun, and
                    \* (history) the overrides stored when the call began
    self_data,      \* coordinator.data: the result of the last tick that returned
    refresh_requested, \* async_request_refresh was called and no tick began since
    calendar,       \* the events the calendar entity answers get_events with
    args,           \* the inputs drawn for the calls of a function under check
    call            \* history variable: the last operation, its inputs and result

LearnerVars == <<learner_data, store, accepted>>

CoordVars ==
    <<mode_overrides, temp_history, previous_modes, tick, self_data, refresh_requested, calendar>>

vars ==
    <<now, learner_data, store, accepted, mode_overrides, temp_history, previous_modes,
      tick, self_data, refresh_requested, calendar, args, call>>

\* no _async_update_data call in progress, n of them begun so far
IdleTick(n) ==
    [pc |-> "idle", n |-> n, i |-> 0, calendar_events |-> <<>>,
     parsed_events |-> None, maison_occupee |-> FALSE, outdoor_temp |-> None,
     pieces_data |-> <<>>, commands |-> <<>>, began_with |-> <<>>, fetched |-> TRUE]

\* the coordinator as __init__ leaves it, but for its overrides
CoordFresh ==
    /\ temp_history = <<>>
    /\ previous_modes = <<>>
    /\ tick = IdleTick(0)
    /\ self_data = None
    /\ refresh_requested = FALSE

\* the coordinator as __init__ leaves it, with an empty calendar
CoordInit ==
    /\ mode_overrides = <<>>
    /\ calendar = <<>>
    /\ CoordFresh

\* the `self` of the coordinator's methods: the configured tunables
DefaultConfig ==
    [security_factor |-> DEFAULT_SECURITY_FACTOR,
     min_preheat_time |-> DEFAULT_MIN_PREHEAT_TIME,
     derivative_window |-> DEFAULT_DERIVATIVE_WINDOW]

\* ------------------------------------------------------------ HeatingRateLearner
\* datetime.hour of the clock
hour_of(t) == (t \div 60) % 24

\* (mutant of rate_is_recorded: the lower guard uses < for <=)
rate_is_recorded_min_included(heating_rate) ==
    IF heating_rate = None \/ RatLT(heating_rate, Milli(LEARNING_RATE_MIN))
    THEN FALSE
    ELSE IF RatLT(Milli(LEARNING_RATE_MAX), heating_rate)
         THEN FALSE
         ELSE TRUE

\* The two guards of record_observation: the rate is recorded iff neither returns.
rate_is_recorded(heating_rate) ==
    IF heating_rate = None \/ RatLE(heating_rate, Milli(LEARNING_RATE_MIN))
    THEN FALSE
    ELSE IF RatLT(Milli(LEARNING_RATE_MAX), heating_rate)
         THEN FALSE
         ELSE TRUE

\* (mutant of keep_last_samples: samples[:LEARNING_MAX_SAMPLES])
keep_first_samples(samples) ==
    IF Len(samples) > LEARNING_MAX_SAMPLES
    THEN SubSeq(samples, 1, LEARNING_MAX_SAMPLES)
    ELSE samples

\* samples[-LEARNING_MAX_SAMPLES:] when the list is longer than the cap
keep_last_samples(samples) ==
    IF Len(samples) > LEARNING_MAX_SAMPLES
    THEN SubSeq(samples, Len(samples) - LEARNING_MAX_SAMPLES + 1, Len(samples))
    ELSE samples

\* record_observation, up to the save: the new _data
record_observation(data, piece_id, heating_rate, outdoor_temp, hour, t) ==
    IF ~rate_is_recorded(heating_rate) THEN data
    ELSE LET observation ==
                 [rate |-> round3(heating_rate),
                  outdoor_temp |-> outdoor_temp,
                  hour |-> IF hour = None THEN hour_of(t) ELSE hour[1],
                  timestamp |-> t]
         IN  [data EXCEPT ![piece_id] = keep_last_samples(Append(@, observation))]

\* JSON of an optional number: null, or the number
json_value(v) == IF v = None THEN <<"null">> ELSE <<"number", v[1]>>

\* the optional number a JSON value is read as
python_value(j) == IF j[1] = "null" THEN None ELSE Some(j[2])

\* json.dump(self._data): every room's list of observation objects
json_dump(data) ==
    [r \in DOMAIN data |->
        [i \in 1..Len(data[r]) |->
            [rate |-> data[r][i].rate,
             outdoor_temp |-> json_value(data[r][i].outdoor_temp),
             hour |-> data[r][i].hour,
             timestamp |-> data[r][i].timestamp]]]

\* (mutant of json_load: the outdoor temperatures are not read back)
json_load_without_outdoor(text) ==
    [r \in DOMAIN text |->
        [i \in 1..Len(text[r]) |->
            [rate |-> text[r][i].rate,
             outdoor_temp |-> None,
             hour |-> text[r][i].hour,
             timestamp |-> text[r][i].timestamp]]]

\* json.load(f)
json_load(text) ==
    [r \in DOMAIN text |->
        [i \in 1..Len(text[r]) |->
            [rate |-> text[r][i].rate,
             outdoor_temp |-> python_value(text[r][i].outdoor_temp),
             hour |-> text[r][i].hour,
             timestamp |-> text[r][i].timestamp]]]

\* the file json.dump(data) writes
stored(data) == [state |-> "ok", data |-> json_dump(data)]

\* no file at storage_path
NoFile == [state |-> "missing", data |-> <<>>]

\* _load_data: the _data of a learner constructed on the file.  No file, or a
\* file json.load cannot read, gives the empty map.
load_data(file) ==
    IF file.state = "ok" THEN json_load(file.data) ELSE [r \in Rooms |-> <<>>]

\* (mutant of save_data: the file is rewritten only when it could be read)
save_data_when_readable(file, data, outcome) ==
    CASE outcome = "saved" -> IF file.state = "corrupt" THEN file ELSE stored(data)
      [] outcome = "not_opened" -> file
      [] outcome = "truncated" -> [state |-> "corrupt", data |-> <<>>]

\* _save_data: the file after a save of data. The write can succeed, fail
\* before the file is opened (file untouched), or fail after open(..., "w")
\* truncated it (the file no longer parses).
save_data(file, data, outcome) ==
    CASE outcome = "saved" -> stored(data)
      [] outcome = "not_opened" -> file
      [] outcome = "truncated" -> [state |-> "corrupt", data |-> <<>>]

SaveOutcomes == {"saved", "not_opened", "truncated"}

\* the exception raised inside the try of _save_data: mkdir or open fails with
\* an OSError, json.dump with an OSError or a TypeError
save_error(outcome) ==
    CASE outcome = "saved" -> None
      [] outcome = "not_opened" -> Some("OSError")
      [] outcome = "truncated" -> Some("TypeError")

\* `except Exception` of _save_data: the error that leaves the method
save_raises(outcome) ==
    IF save_error(outcome) # None /\ save_error(outcome)[1] \notin {"OSError", "TypeError"}
    THEN save_error(outcome)
    ELSE None

\* (mutant of get_period: the night does not wrap around midnight)
get_period_no_wrap(h) ==
    IF 6 <= h /\ h < 12 THEN 1
    ELSE IF 12 <= h /\ h < 18 THEN 2
    ELSE IF 18 <= h /\ h < 22 THEN 3
    ELSE IF h >= 22 THEN 4
    ELSE 0

get_period(h) ==
    IF 6 <= h /\ h < 12 THEN 1
    ELSE IF 12 <= h /\ h < 18 THEN 2
    ELSE IF 18 <= h /\ h < 22 THEN 3
    ELSE 0

same_time_period(hour1, hour2) == get_period(hour1) = get_period(hour2)

\* The weight of one sample, in quarters (1.0 is 4).
sample_weight(sample, outdoor_temp, hour) ==
    LET w1 == IF same_time_period(hour, sample.hour) THEN 6 ELSE 4
    IN  IF outdoor_temp # None /\ sample.outdoor_temp # None
        THEN LET temp_diff == Abs(outdoor_temp[1] - sample.outdoor_temp[1])
             IN  IF temp_diff <= 50 THEN (w1 * 3) \div 2
                 ELSE IF temp_diff <= 100 THEN w1
                 ELSE w1 \div 2
        ELSE w1

RECURSIVE weighted_sum(_, _, _)
weighted_sum(samples, outdoor_temp, hour) ==
    IF samples = <<>> THEN 0
    ELSE Head(samples).rate * sample_weight(Head(samples), outdoor_temp, hour)
         + weighted_sum(Tail(samples), outdoor_temp, hour)

RECURSIVE weight_total(_, _, _)
weight_total(samples, outdoor_temp, hour) ==
    IF samples = <<>> THEN 0
    ELSE sample_weight(Head(samples), outdoor_temp, hour)
         + weight_total(Tail(samples), outdoor_temp, hour)

\* (mutant of get_predicted_rate: <= LEARNING_MIN_SAMPLES for <)
get_predicted_rate_one_more(data, piece_id, outdoor_temp, hour, t) ==
    LET samples == data[piece_id]
        h == IF hour = None THEN hour_of(t) ELSE hour[1]
    IN  IF Len(samples) <= LEARNING_MIN_SAMPLES THEN None
        ELSE IF weight_total(samples, outdoor_temp, h) > 0
             THEN <<weighted_sum(samples, outdoor_temp, h),
                    1000 * weight_total(samples, outdoor_temp, h)>>
             ELSE None

\* get_predicted_rate: None, or the rational weighted_sum / weight_total
get_predicted_rate(data, piece_id, outdoor_temp, hour, t) ==
    LET samples == data[piece_id]
        h == IF hour = None THEN hour_of(t) ELSE hour[1]
    IN  IF Len(samples) < LEARNING_MIN_SAMPLES THEN None
        ELSE IF weight_total(samples, outdoor_temp, h) > 0
             THEN <<weighted_sum(samples, outdoor_temp, h),
                    1000 * weight_total(samples, outdoor_temp, h)>>
             ELSE None

\* ------------------------------------------------------------ coordinator
\* (mutant of compute_preheat_time: the minimum caps the result)
compute_preheat_time_capped(self, current_temp, target_temp, heating_rate) ==
    IF current_temp = None THEN self.min_preheat_time
    ELSE LET delta == target_temp - current_temp[1]
         IN  IF delta <= 0 THEN 0
             ELSE LET effective_rate ==
                          IF heating_rate = None \/ RatLE(heating_rate, <<0, 1>>)
                          THEN DEFAULT_HEATING_RATE
                          ELSE heating_rate
                      time_with_margin ==
                          (delta * effective_rate[2] * 6 * self.security_factor)
                              \div (10 * effective_rate[1])
                  IN  IF time_with_margin <= self.min_preheat_time
                      THEN time_with_margin ELSE self.min_preheat_time

\* compute_preheat_time.  With delta in tenths of a degree, the rate n/d and
\* the security factor in tenths, (delta / rate) * 60 * factor is
\* delta * d * 6 * factor / (10 * n) minutes; int() drops the fraction.
compute_preheat_time(self, current_temp, target_temp, heating_rate) ==
    IF current_temp = None THEN self.min_preheat_time
    ELSE LET delta == target_temp - current_temp[1]
         IN  IF delta <= 0 THEN 0
             ELSE LET effective_rate ==
                          IF heating_rate = None \/ RatLE(heating_rate, <<0, 1>>)
                          THEN DEFAULT_HEATING_RATE
                          ELSE heating_rate
                      time_with_margin ==
                          (delta * effective_rate[2] * 6 * self.security_factor)
                              \div (10 * effective_rate[1])
                  IN  Max(time_with_margin, self.min_preheat_time)

\* piece_config.get(CONF_PIECE_NAME, piece_id).lower()
piece_name(piece_id) == lower(pieces[piece_id].name)

\* (mutant of is_relevant: a comfort event of any room is relevant)
is_relevant_any_room(summary, piece_id) ==
    \/ summary = EVENT_CONFORT
    \/ startswith(summary, EVENT_CONFORT \o <<" ">>)

\* is_relevant in _find_next_comfort_event
is_relevant(summary, piece_id) ==
    \/ summary = EVENT_CONFORT
    \/ summary = EVENT_CONFORT \o <<" ">> \o piece_name(piece_id)
    \/ summary = EVENT_CONFORT \o <<" ">> \o lower(id_text[piece_id])

\* The loop of _find_next_comfort_event over calendar_events[i..], with the
\* next_event found so far (None or Some(event)).
RECURSIVE find_next_loop(_, _, _, _, _)
find_next_loop(piece_id, calendar_events, i, next_event, t) ==
    IF i > Len(calendar_events) THEN next_event
    ELSE LET event == calendar_events[i]
             start == event.start
             skip == \/ ~is_relevant(normalize_summary(event.summary), piece_id)
                     \/ start = None
                     \/ start[1] <= t
             better == next_event = None \/ start[1] < next_event[1].start[1]
         IN  find_next_loop(piece_id, calendar_events, i + 1,
                            IF ~skip /\ better THEN Some(event) ELSE next_event, t)

\* _find_next_comfort_event, its clock read giving t
find_next_comfort_event(piece_id, calendar_events, t) ==
    find_next_loop(piece_id, calendar_events, 1, None, t)

\* (mutant of check_preheat_trigger: < preheat_time for <=)
check_preheat_trigger_strict(piece_id, calendar_events, preheat_time, t1, t2) ==
    LET next_comfort == find_next_comfort_event(piece_id, calendar_events, t2)
    IN  IF next_comfort = None THEN FALSE
        ELSE LET start == next_comfort[1].start
             IN  IF start = None THEN FALSE
                 ELSE IF start[1] <= t1 THEN FALSE
                 ELSE start[1] - t1 < preheat_time

\* _check_preheat_trigger: its own clock read gives t1, the read made by
\* _find_next_comfort_event after it gives t2.
check_preheat_trigger(piece_id, calendar_events, preheat_time, t1, t2) ==
    LET next_comfort == find_next_comfort_event(piece_id, calendar_events, t2)
    IN  IF next_comfort = None THEN FALSE
        ELSE LET start == next_comfort[1].start
             IN  IF start = None THEN FALSE
                 ELSE IF start[1] <= t1 THEN FALSE
                 ELSE start[1] - t1 <= preheat_time

\* The loop of _parse_calendar_events over events[i..], with the result so far.
RECURSIVE parse_loop(_, _, _, _)
parse_loop(events, i, result, t) ==
    IF i > Len(events) THEN result
    ELSE LET event == events[i]
             summary == normalize_summary(event.summary)
             active == /\ event.start # None
                       /\ event.end # None
                       /\ event.start[1] <= t
                       /\ t <= event.end[1]
             updated ==
                 IF summary = EVENT_ABSENCE THEN [result EXCEPT !.absence = TRUE]
                 ELSE IF summary = EVENT_CONFORT
                      THEN [result EXCEPT !.confort_global = TRUE]
                 ELSE IF startswith(summary, EVENT_CONFORT \o <<" ">>)
                      THEN [result EXCEPT !.confort_pieces =
                               @ \cup {strip(SubSeq(summary, Len(EVENT_CONFORT) + 2,
                                                    Len(summary)))}]
                 ELSE result
         IN  parse_loop(events, i + 1, IF active THEN updated ELSE result, t)

\* _parse_calendar_events, its clock read giving t
parse_calendar_events(events, t) ==
    parse_loop(events, 1,
               [absence |-> FALSE, confort_global |-> FALSE, confort_pieces |-> {}], t)

\* (mutant of without: the delete empties the dict)
without_all(dict, key) == <<>>

\* dict.pop(key, None) / del dict[key]
without(dict, key) == [k \in DOMAIN dict \ {key} |-> dict[k]]

\* (mutant of with: the assignment leaves the dict with this key alone)
with_only(dict, key, value) == [k \in {key} |-> value]

\* dict[key] = value
with(dict, key, value) == [k \in DOMAIN dict \cup {key} |-> IF k = key THEN value ELSE dict[k]]

\* (mutant of resolve_mode: an override is kept while now <= expiry)
resolve_mode_expiry_included(overrides, piece_id, parsed_events, maison_occupee, t) ==
    LET live == /\ piece_id \in DOMAIN overrides
                /\ \/ overrides[piece_id].expiry = None
                   \/ t <= overrides[piece_id].expiry[1]
        left == IF piece_id \in DOMAIN overrides /\ ~live
                THEN without(overrides, piece_id)
                ELSE overrides
        ret ==
            IF live THEN <<overrides[piece_id].mode, SOURCE_OVERRIDE>>
            ELSE IF parsed_events.absence THEN <<MODE_HORS_GEL, SOURCE_CALENDAR>>
            ELSE IF ~maison_occupee THEN <<MODE_ECO, SOURCE_PRESENCE>>
            ELSE IF piece_name(piece_id) \in parsed_events.confort_pieces
                 THEN <<MODE_CONFORT, SOURCE_CALENDAR>>
            ELSE IF lower(id_text[piece_id]) \in parsed_events.confort_pieces
                 THEN <<MODE_CONFORT, SOURCE_CALENDAR>>
            ELSE IF parsed_events.confort_global THEN <<MODE_CONFORT, SOURCE_CALENDAR>>
            ELSE <<MODE_ECO, SOURCE_DEFAULT>>
    IN  [ret |-> ret, mode_overrides |-> left]

\* (mutant of resolve_mode: presence is looked at before the absence event)
resolve_mode_presence_first(overrides, piece_id, parsed_events, maison_occupee, t) ==
    LET live == /\ piece_id \in DOMAIN overrides
                /\ \/ overrides[piece_id].expiry = None
                   \/ t < overrides[piece_id].expiry[1]
        left == IF piece_id \in DOMAIN overrides /\ ~live
                THEN without(overrides, piece_id)
                ELSE overrides
        ret ==
            IF live THEN <<overrides[piece_id].mode, SOURCE_OVERRIDE>>
            ELSE IF ~maison_occupee THEN <<MODE_ECO, SOURCE_PRESENCE>>
            ELSE IF parsed_events.absence THEN <<MODE_HORS_GEL, SOURCE_CALENDAR>>
            ELSE IF piece_name(piece_id) \in parsed_events.confort_pieces
                 THEN <<MODE_CONFORT, SOURCE_CALENDAR>>
            ELSE IF lower(id_text[piece_id]) \in parsed_events.confort_pieces
                 THEN <<MODE_CONFORT, SOURCE_CALENDAR>>
            ELSE IF parsed_events.confort_global THEN <<MODE_CONFORT, SOURCE_CALENDAR>>
            ELSE <<MODE_ECO, SOURCE_DEFAULT>>
    IN  [ret |-> ret, mode_overrides |-> left]

\* _resolve_mode, its clock read giving t: the (mode, source) returned and the
\* override store it leaves.
resolve_mode(overrides, piece_id, parsed_events, maison_occupee, t) ==
    LET live == /\ piece_id \in DOMAIN overrides
                /\ \/ overrides[piece_id].expiry = None
                   \/ t < overrides[piece_id].expiry[1]
        left == IF piece_id \in DOMAIN overrides /\ ~live
                THEN without(overrides, piece_id)
                ELSE overrides
        ret ==
            IF live THEN <<overrides[piece_id].mode, SOURCE_OVERRIDE>>
            ELSE IF parsed_events.absence THEN <<MODE_HORS_GEL, SOURCE_CALENDAR>>
            ELSE IF ~maison_occupee THEN <<MODE_ECO, SOURCE_PRESENCE>>
            ELSE IF piece_name(piece_id) \in parsed_events.confort_pieces
                 THEN <<MODE_CONFORT, SOURCE_CALENDAR>>
            ELSE IF lower(id_text[piece_id]) \in parsed_events.confort_pieces
                 THEN <<MODE_CONFORT, SOURCE_CALENDAR>>
            ELSE IF parsed_events.confort_global THEN <<MODE_CONFORT, SOURCE_CALENDAR>>
            ELSE <<MODE_ECO, SOURCE_DEFAULT>>
    IN  [ret |-> ret, mode_overrides |-> left]

\* (mutant of override_expiry: a duration of 0 expires at once)
override_expiry_of_zero(duration, t) ==
    IF duration # None THEN Some(t + duration[1]) ELSE None

\* async_set_mode_override: `if duration:` is false for None and for 0
override_expiry(duration, t) ==
    IF duration # None /\ duration[1] # 0 THEN Some(t + duration[1]) ELSE None

\* the override store async_set_mode_override leaves, its clock read giving t
set_mode_override(overrides, piece_id, mode, duration, t) ==
    with(overrides, piece_id, [mode |-> mode, expiry |-> override_expiry(duration, t)])

\* (mutant of reset_mode_override: every override is removed, room or no room)
reset_mode_override_all(overrides, piece_id) ==
    <<>>

\* the override store async_reset_mode_override leaves, piece_id None for
\* every room
reset_mode_override(overrides, piece_id) ==
    IF piece_id # None THEN without(overrides, piece_id[1]) ELSE <<>>

\* (mutant of is_valid_mode: every mode is taken)
is_valid_mode_always(mode) ==
    TRUE

\* handle_set_mode: `if mode not in MODES` is false
is_valid_mode(mode) ==
    mode \in MODES

\* Python round(x, 2) of the rational n / d >= 0 given in thousandths, as
\* hundredths: to the nearest hundredth, a tie to the even one.
round2(n, d) ==
    LET q == n \div (10 * d)
        r == n % (10 * d)
    IN  IF 2 * r < 10 * d THEN q
        ELSE IF 2 * r > 10 * d THEN q + 1
        ELSE IF q % 2 = 0 THEN q ELSE q + 1

RECURSIVE sum_rates(_)
sum_rates(samples) ==
    IF samples = <<>> THEN 0 ELSE Head(samples).rate + sum_rates(Tail(samples))

\* HeatingRateLearner.get_stats
get_stats(learned, piece_id) ==
    LET samples == learned[piece_id]
        rates == {samples[i].rate : i \in 1..Len(samples)}
    IN  IF samples = <<>>
        THEN [samples |-> 0, avg_rate |-> None, min_rate |-> None, max_rate |-> None]
        ELSE [samples |-> Len(samples),
              avg_rate |-> Some(round2(sum_rates(samples), Len(samples))),
              min_rate |-> Some(round2(CHOOSE r \in rates : \A o \in rates : r <= o, 1)),
              max_rate |-> Some(round2(CHOOSE r \in rates : \A o \in rates : r >= o, 1))]

\* _compute_presence: states holds the state of each configured tracker
\* (None when hass knows no such entity)
compute_presence(states) ==
    \E i \in 1..Len(states) : states[i] # None /\ states[i][1] = STATE_HOME

\* a current_temperature attribute that is neither a number nor a string (a
\* list): float() raises TypeError on it
Unreadable == <<0, 0>>

\* _get_temperature leaves with the TypeError of float(current_temp): the
\* probe gives no temperature and the first radiator that has the attribute
\* has an unreadable one
get_temperature_raises(piece_config, states) ==
    /\ IF piece_config.sonde = None THEN TRUE
       ELSE states[piece_config.sonde[1]] = None
    /\ \E i \in 1..Len(piece_config.radiateurs) :
           /\ states[piece_config.radiateurs[i]] = Unreadable
           /\ \A j \in 1..(i - 1) : states[piece_config.radiateurs[j]] = None

\* (mutant of get_calendar_events: a failed call answers the events all the same)
get_calendar_events_anyway(entity_events, fetched) == entity_events

\* _get_calendar_events: the events of the calendar entity, none when the
\* get_events call raises
get_calendar_events(entity_events, fetched) ==
    IF fetched THEN entity_events ELSE <<>>

\* (mutant of update_data_result: the rooms processed before the error are returned)
update_data_partial(maison_occupee, outdoor_temp, pieces_data, error) ==
    Some([maison_occupee |-> maison_occupee, outdoor_temp |-> outdoor_temp,
          pieces |-> pieces_data])

\* what _async_update_data returns: the result, or nothing when an error
\* reached its `except Exception` and UpdateFailed is raised
update_data_result(maison_occupee, outdoor_temp, pieces_data, error) ==
    IF error THEN None
    ELSE Some([maison_occupee |-> maison_occupee, outdoor_temp |-> outdoor_temp,
               pieces |-> pieces_data])

\* the entities _get_temperature reads for a room: its probe and its radiators
room_entities(piece_config) ==
    (IF piece_config.sonde = None THEN {} ELSE {piece_config.sonde[1]})
    \cup {piece_config.radiateurs[i] : i \in 1..Len(piece_config.radiateurs)}

\* The loop of _get_temperature over the radiators from the i-th on.
RECURSIVE first_radiator_temperature(_, _, _)
first_radiator_temperature(radiateurs, states, i) ==
    IF i > Len(radiateurs) THEN None
    ELSE IF states[radiateurs[i]] # None THEN states[radiateurs[i]]
    ELSE first_radiator_temperature(radiateurs, states, i + 1)

\* _get_temperature: states maps the room's entities to the temperature that
\* can be read from them (None: no entity, unknown, unavailable or no number)
get_temperature(piece_config, states) ==
    IF piece_config.sonde # None /\ states[piece_config.sonde[1]] # None
    THEN states[piece_config.sonde[1]]
    ELSE first_radiator_temperature(piece_config.radiateurs, states, 1)

\* (mutant of since: nothing is removed from the window)
since_unpruned(history, cutoff) == history

\* the entries of a temperature window no older than cutoff
RECURSIVE since(_, _)
since(history, cutoff) ==
    IF history = <<>> THEN <<>>
    ELSE IF Head(history)[1] >= cutoff
         THEN <<Head(history)>> \o since(Tail(history), cutoff)
         ELSE since(Tail(history), cutoff)

\* (mutant of compute_derivative: only a negative elapsed time gives None)
compute_derivative_zero_elapsed(self, histories, piece_id, current_temp, t) ==
    IF current_temp = None THEN [ret |-> None, temp_history |-> histories]
    ELSE LET old == IF piece_id \in DOMAIN histories THEN histories[piece_id] ELSE <<>>
             history == since(Append(old, <<t, current_temp[1]>>), t - self.derivative_window)
             oldest == history[1]
             newest == history[Len(history)]
             minutes == newest[1] - oldest[1]
         IN  [ret |-> IF Len(history) < 2 \/ minutes < 0 THEN None
                      ELSE <<(newest[2] - oldest[2]) * 6, minutes>>,
              temp_history |-> with(histories, piece_id, history)]

\* _compute_derivative, its clock read giving t: the rate returned (degrees
\* per hour, a rational) and the _temp_history it leaves.
compute_derivative(self, histories, piece_id, current_temp, t) ==
    IF current_temp = None THEN [ret |-> None, temp_history |-> histories]
    ELSE LET old == IF piece_id \in DOMAIN histories THEN histories[piece_id] ELSE <<>>
             history == since(Append(old, <<t, current_temp[1]>>), t - self.derivative_window)
             oldest == history[1]
             newest == history[Len(history)]
             minutes == newest[1] - oldest[1]
         IN  [ret |-> IF Len(history) < 2 \/ minutes <= 0 THEN None
                      ELSE <<(newest[2] - oldest[2]) * 6, minutes>>,
              temp_history |-> with(histories, piece_id, history)]

\* (mutant of consigne_of: a mode without entry gets the frost-guard target)
consigne_of_frost_guard(piece_config, mode) ==
    IF mode \in DOMAIN piece_config.temperatures
    THEN piece_config.temperatures[mode]
    ELSE piece_config.temperatures[MODE_HORS_GEL]

\* piece_config[CONF_PIECE_TEMPERATURES].get(mode, 19)
consigne_of(piece_config, mode) ==
    IF mode \in DOMAIN piece_config.temperatures
    THEN piece_config.temperatures[mode]
    ELSE FALLBACK_CONSIGNE

\* (mutant of is_learned: the mode is not looked at)
is_learned_any_mode(current_mode, heating_rate) ==
    /\ heating_rate # None
    /\ ~RatLE(heating_rate, <<0, 1>>)

\* the guards of _learn_heating_rate: the observation is handed to the learner
is_learned(current_mode, heating_rate) ==
    /\ current_mode = MODE_CONFORT
    /\ heating_rate # None
    /\ ~RatLE(heating_rate, <<0, 1>>)

\* (mutant of anticipation_upgrade: any resolved mode is upgraded)
anticipation_upgrade_any_mode(prechauffage_actif, mode) ==
    prechauffage_actif

\* the test of _async_update_data that makes a room preheat
anticipation_upgrade(prechauffage_actif, mode) ==
    prechauffage_actif /\ mode = MODE_ECO

\* (mutant of radiator_commands: the loop ends at the first call that fails)
radiator_commands_until_failure(radiator_entities, temperature, failing) ==
    LET reached == {i \in 1..Len(radiator_entities) :
                        \A j \in 1..(i - 1) : radiator_entities[j] \notin failing}
    IN  [i \in reached |->
            [entity_id |-> radiator_entities[i], temperature |-> temperature,
             ok |-> radiator_entities[i] \notin failing]]

\* the set_temperature calls _set_radiators_temperature makes, those to the
\* entities of `failing` raising an error that is logged
radiator_commands(radiator_entities, temperature, failing) ==
    [i \in 1..Len(radiator_entities) |->
        [entity_id |-> radiator_entities[i], temperature |-> temperature,
         ok |-> radiator_entities[i] \notin failing]]

\* The body of the room loop of _async_update_data for piece_id, every clock
\* read of it giving t: the room's entry of the result and the state it leaves.
process_room(self, piece_id, states, context, overrides, histories, learned, t, failing) ==
    LET piece_config == pieces[piece_id]
        temp_actuelle == get_temperature(piece_config, states)
        derivative == compute_derivative(self, histories, piece_id, temp_actuelle, t)
        vitesse_mesuree == derivative.ret
        vitesse_apprise == get_predicted_rate(learned, piece_id, context.outdoor_temp, None, t)
        vitesse == IF vitesse_mesuree = None /\ vitesse_apprise # None
                   THEN vitesse_apprise ELSE vitesse_mesuree
        resolved == resolve_mode(overrides, piece_id, context.parsed_events,
                                 context.maison_occupee, t)
        consigne == consigne_of(piece_config, resolved.ret[1])
        vitesse_pour_calcul == IF vitesse = None /\ vitesse_apprise # None
                               THEN vitesse_apprise ELSE vitesse
        temps_prechauffe == compute_preheat_time(self, temp_actuelle, consigne,
                                                 vitesse_pour_calcul)
        prochain_evenement == find_next_comfort_event(piece_id, context.calendar_events, t)
        prechauffage_actif == check_preheat_trigger(piece_id, context.calendar_events,
                                                    temps_prechauffe, t, t)
        upgraded == anticipation_upgrade(prechauffage_actif, resolved.ret[1])
        mode == IF upgraded THEN MODE_CONFORT ELSE resolved.ret[1]
        learns == is_learned(mode, vitesse_mesuree)
        after == IF learns
                 THEN record_observation(learned, piece_id, vitesse_mesuree,
                                         context.outdoor_temp, None, t)
                 ELSE learned
        final_consigne == IF upgraded THEN consigne_of(piece_config, MODE_CONFORT)
                          ELSE consigne
        learning_stats == get_stats(after, piece_id)
    IN  [decision |->
            [mode |-> mode,
             source |-> IF upgraded THEN SOURCE_ANTICIPATION ELSE resolved.ret[2],
             consigne |-> final_consigne,
             temperature |-> temp_actuelle,
             vitesse_chauffe |-> vitesse,
             vitesse_apprise |-> vitesse_apprise,
             temps_prechauffage |-> temps_prechauffe,
             prechauffage_actif |-> prechauffage_actif,
             prochain_evenement |-> IF prochain_evenement = None THEN None
                                    ELSE prochain_evenement[1].start,
             learning_samples |-> learning_stats.samples,
             learning_avg_rate |-> learning_stats.avg_rate],
         resolved |-> resolved.ret,
         vitesse_mesuree |-> vitesse_mesuree,
         learns |-> learns,
         commands |-> radiator_commands(piece_config.radiateurs, final_consigne, failing),
         mode_overrides |-> resolved.mode_overrides,
         temp_history |-> derivative.temp_history,
         learner_data |-> after]

\* ------------------------------------------------------------ bounds
\* record_observation calls made in one behaviour of SpecLearner
MaxCalls == 2
\* samples recorded in one behaviour of SpecPredict
MaxSamples == 6
\* events in a calendar of SpecTrigger
MaxEvents == 2
\* _resolve_mode calls made in one behaviour of SpecResolve
MaxResolveCalls == 2
\* set_mode service calls made in one behaviour of SpecService
MaxServiceCalls == 2
\* ticks begun in one behaviour of Spec
MaxTicks == 2
\* overrides set in one behaviour of Spec
MaxCommands == 1
\* the last minute of the clock in Spec
MaxTime == 5
\* _compute_derivative calls made in one behaviour of SpecDerivative
MaxDerivativeCalls == 3
\* events in a calendar of SpecParse
MaxParsedEvents == 2

\* ============================================================ SpecLearner
\* record_observation on histories of any length up to the cap.
\* The history a room holds after n accepted observations, the i-th one made
\* at minute i with the rate 1.000 + i thousandths.
RecordedHistory(n) ==
    [i \in 1..n |->
        [rate |-> 1000 + i, outdoor_temp |-> None, hour |-> hour_of(i), timestamp |-> i]]

HistoryLengths == {0, 1, LEARNING_MAX_SAMPLES - 1, LEARNING_MAX_SAMPLES}

\* -1.0, 0.3, 0.3001, 5.0, 5.0001 and an absent rate
RecordRates == {<<-1, 1>>, <<3, 10>>, <<3001, 10000>>, <<5, 1>>, <<50001, 10000>>, None}

RecordConditions == {<<None, None>>, <<Some(50), Some(10)>>}

\* What the specification says of a rate: it is accepted iff 0.3 < r <= 5.0.
InRange(r) == r # None /\ 3 * r[2] < 10 * r[1] /\ r[1] <= 5 * r[2]

\* What the specification says is stored for an accepted observation.
SpecObservation(r, outdoor, hour, t) ==
    [rate |-> round3(r), outdoor_temp |-> outdoor,
     hour |-> IF hour = None THEN hour_of(t) ELSE hour[1], timestamp |-> t]

LearnerInit ==
    \E n \in HistoryLengths :
        /\ now = n
        /\ learner_data = [r \in Rooms |-> IF r = RoomOrder[1] THEN RecordedHistory(n) ELSE <<>>]
        /\ store = IF n = 0 THEN NoFile ELSE stored(learner_data)
        /\ accepted = learner_data
        /\ CoordInit
        /\ args = None
        /\ call = [op |-> "none", n |-> 0, saved |-> FALSE]

\* HeatingRateLearner.record_observation(piece_id, heating_rate, outdoor_temp, hour)
RecordObservation(piece_id, heating_rate, outdoor_temp, hour, outcome) ==
    /\ call.n < MaxCalls
    /\ learner_data' = record_observation(learner_data, piece_id, heating_rate,
                                          outdoor_temp, hour, now)
    /\ store' = IF rate_is_recorded(heating_rate)
                THEN save_data(store, learner_data', outcome)
                ELSE store
    /\ accepted' = IF InRange(heating_rate)
                   THEN [accepted EXCEPT ![piece_id] =
                            Append(@, SpecObservation(heating_rate, outdoor_temp, hour, now))]
                   ELSE accepted
    /\ now' = now + 1
    /\ call' = [op |-> "record_observation", n |-> call.n + 1, piece_id |-> piece_id,
                heating_rate |-> heating_rate, before |-> learner_data,
                file_before |-> store,
                outcome |-> IF rate_is_recorded(heating_rate) THEN outcome ELSE "no_save",
                raised |-> IF rate_is_recorded(heating_rate) THEN save_raises(outcome)
                           ELSE None,
                saved |-> IF rate_is_recorded(heating_rate) THEN outcome = "saved"
                          ELSE call.saved]
    /\ UNCHANGED <<CoordVars, args>>

\* HeatingRateLearner(hass, storage_path): a second learner is constructed on
\* the file of the first one
LoadData ==
    /\ call.op = "record_observation"
    /\ call' = [op |-> "load_data", n |-> call.n, saved |-> call.saved,
                loaded |-> load_data(store)]
    /\ UNCHANGED <<now, LearnerVars, CoordVars, args>>

LearnerNext ==
    \/ \E piece_id \in Rooms, heating_rate \in RecordRates, c \in RecordConditions,
          outcome \in SaveOutcomes :
           RecordObservation(piece_id, heating_rate, c[1], c[2], outcome)
    \/ LoadData

SpecLearner == LearnerInit /\ [][LearnerNext]_vars

\* ============================================================ SpecPredict
\* get_predicted_rate on the histories record_observation builds from nothing.
\* A morning sample at 2.0 degrees per hour without outdoor temperature, and
\* night samples at 2.0 and at 1.0 degrees per hour with 0.0 degrees outdoors.
SampleKinds ==
    {[rate |-> <<2, 1>>, hour |-> Some(8), outdoor_temp |-> None],
     [rate |-> <<2, 1>>, hour |-> Some(23), outdoor_temp |-> Some(0)],
     [rate |-> <<1, 1>>, hour |-> Some(23), outdoor_temp |-> Some(0)]}

QueryHours == {None, Some(9), Some(21)}

QueryOutdoor == {None, Some(20), Some(140)}

PredictRoom == RoomOrder[1]

PredictInit ==
    /\ now = 0
    /\ learner_data = [r \in Rooms |-> <<>>]
    /\ store = stored(learner_data)
    /\ accepted = [r \in Rooms |-> <<>>]
    /\ CoordInit
    /\ args = None
    /\ call = [op |-> "none", n |-> 0]

\* record_observation with a write that succeeds
RecordSample(k) ==
    /\ Len(learner_data[PredictRoom]) < MaxSamples
    /\ learner_data' = record_observation(learner_data, PredictRoom, k.rate,
                                          k.outdoor_temp, k.hour, now)
    /\ store' = IF rate_is_recorded(k.rate)
                THEN save_data(store, learner_data', "saved")
                ELSE store
    /\ accepted' = [accepted EXCEPT ![PredictRoom] =
                       Append(@, SpecObservation(k.rate, k.outdoor_temp, k.hour, now))]
    /\ call' = [op |-> "record_observation", n |-> call.n + 1, piece_id |-> PredictRoom,
                heating_rate |-> k.rate, before |-> learner_data]
    /\ UNCHANGED <<now, CoordVars, args>>

\* HeatingRateLearner.get_predicted_rate(piece_id, outdoor_temp, hour)
GetPredictedRate(piece_id, outdoor_temp, hour) ==
    /\ call' = [op |-> "get_predicted_rate", n |-> call.n, piece_id |-> piece_id,
                outdoor_temp |-> outdoor_temp,
                hour |-> IF hour = None THEN hour_of(now) ELSE hour[1],
                ret |-> get_predicted_rate(learner_data, piece_id, outdoor_temp, hour, now)]
    /\ UNCHANGED <<now, LearnerVars, CoordVars, args>>

PredictNext ==
    \/ \E k \in SampleKinds : RecordSample(k)
    \/ \E outdoor_temp \in QueryOutdoor, hour \in QueryHours :
            GetPredictedRate(PredictRoom, outdoor_temp, hour)

SpecPredict == PredictInit /\ [][PredictNext]_vars

\* ============================================================ SpecPreheat
\* compute_preheat_time on drawn inputs.
PreheatConfigs ==
    {[security_factor |-> f, min_preheat_time |-> m,
      derivative_window |-> DEFAULT_DERIVATIVE_WINDOW] :
        f \in {10, DEFAULT_SECURITY_FACTOR, 20}, m \in {10, DEFAULT_MIN_PREHEAT_TIME}}

\* absent, 17.0, 18.5, 19.0, 19.5, 20.0 and 21.0 degrees
CurrentTemps == {None, Some(170), Some(185), Some(190), Some(195), Some(200), Some(210)}

\* 19.0 and 20.0 degrees
TargetTemps == {190, 200}

\* absent, 0.0, -0.5, 0.7, 1.5 and 2.0 degrees per hour
PreheatRates == {None, <<0, 1>>, <<-1, 2>>, <<7, 10>>, <<3, 2>>, <<2, 1>>}

IdleLearner ==
    /\ learner_data = [r \in Rooms |-> <<>>]
    /\ store = stored(learner_data)
    /\ accepted = learner_data

PreheatInit ==
    /\ now = 0
    /\ IdleLearner
    /\ CoordInit
    /\ args \in [self : PreheatConfigs, current_temp : CurrentTemps,
                 target_temp : TargetTemps, heating_rate : PreheatRates]
    /\ call = [op |-> "none", n |-> 0]

\* ChauffageIntelligentCoordinator.compute_preheat_time(current_temp, target_temp, heating_rate)
ComputePreheatTime ==
    /\ call' = [op |-> "compute_preheat_time", n |-> 0,
                ret |-> compute_preheat_time(args.self, args.current_temp,
                                             args.target_temp, args.heating_rate)]
    /\ UNCHANGED <<now, LearnerVars, CoordVars, args>>

PreheatNext == ComputePreheatTime

SpecPreheat == PreheatInit /\ [][PreheatNext]_vars

\* ============================================================ SpecTrigger
\* _check_preheat_trigger on drawn calendars.
TxtConfort == <<"C", "o", "n", "f", "o", "r", "t">>
TxtAbsence == <<"A", "b", "s", "e", "n", "c", "e">>
TxtConfortBureau == <<"C", "o", "n", "f", "o", "r", "t", " ", "-", " ", "B", "u", "r", "e", "a", "u">>
TxtConfortChambre == <<"C", "O", "N", "F", "O", "R", "T", " ", "C", "h", "a", "m", "b", "r", "e">>
TxtConfortCh1 == <<"c", "o", "n", "f", "o", "r", "t", " ", "c", "h", "1", " ">>

TriggerSummaries == {TxtConfort, TxtAbsence, TxtConfortBureau, TxtConfortChambre, TxtConfortCh1}

\* An event of the calendar: its summary and its bounds (None: missing, or a
\* string parse_datetime cannot read).
Event(summary, start, end) == [summary |-> summary, start |-> start, end |-> end]

TriggerEvents ==
    {Event(TxtConfort, None, None)}
    \cup {Event(summary, Some(t), Some(t + 30)) : summary \in TriggerSummaries, t \in {12, 40, 45}}

\* the event lists of at most n events
Lists(S, n) == UNION {[1..k -> S] : k \in 0..n}

TriggerPreheatTimes == {0, 30, 35}

\* how far the clock moves between two reads made by one call
ClockDrift == {0, 5}

TriggerInit ==
    /\ now \in {10, 12}
    /\ IdleLearner
    /\ CoordInit
    /\ args \in [calendar_events : Lists(TriggerEvents, MaxEvents)]
    /\ call = [op |-> "none", n |-> 0]

\* ChauffageIntelligentCoordinator._check_preheat_trigger(piece_id, calendar_events, preheat_time)
CheckPreheatTrigger(piece_id, preheat_time, drift) ==
    /\ call.op = "none"
    /\ now' = now + drift
    /\ call' = [op |-> "check_preheat_trigger", n |-> call.n + 1, piece_id |-> piece_id,
                preheat_time |-> preheat_time, t1 |-> now, t2 |-> now',
                ret |-> check_preheat_trigger(piece_id, args.calendar_events,
                                              preheat_time, now, now')]
    /\ UNCHANGED <<LearnerVars, CoordVars, args>>

\* ChauffageIntelligentCoordinator._find_next_comfort_event(piece_id, calendar_events)
FindNextComfortEvent(piece_id) ==
    /\ call.op = "none"
    /\ call' = [op |-> "find_next_comfort_event", n |-> call.n + 1, piece_id |-> piece_id,
                t |-> now,
                ret |-> find_next_comfort_event(piece_id, args.calendar_events, now)]
    /\ UNCHANGED <<now, LearnerVars, CoordVars, args>>

TriggerNext ==
    \/ \E piece_id \in Rooms, preheat_time \in TriggerPreheatTimes, drift \in ClockDrift :
           CheckPreheatTrigger(piece_id, preheat_time, drift)
    \/ \E piece_id \in Rooms : FindNextComfortEvent(piece_id)

SpecTrigger == TriggerInit /\ [][TriggerNext]_vars

\* ============================================================ SpecResolve
\* _resolve_mode on drawn override stores, calendar signals and presence.
OverrideValues == [mode : MODES, expiry : {None, Some(10)}]

OverrideStores == UNION {[S -> OverrideValues] : S \in SUBSET Rooms}

ComfortTokens == {lower(id_text[r]) : r \in Rooms} \cup {piece_name(r) : r \in Rooms}

ParsedEvents ==
    [absence : BOOLEAN, confort_global : BOOLEAN, confort_pieces : SUBSET ComfortTokens]

ResolveInit ==
    /\ now \in {9, 10, 11}
    /\ IdleLearner
    /\ mode_overrides \in OverrideStores
    /\ calendar = <<>>
    /\ CoordFresh
    /\ args \in [parsed_events : ParsedEvents, maison_occupee : BOOLEAN]
    /\ call = [op |-> "none", n |-> 0]

\* ChauffageIntelligentCoordinator._resolve_mode(piece_id, parsed_events, maison_occupee)
ResolveMode(piece_id) ==
    /\ call.n < MaxResolveCalls
    /\ LET r == resolve_mode(mode_overrides, piece_id, args.parsed_events,
                             args.maison_occupee, now)
       IN  /\ mode_overrides' = r.mode_overrides
           /\ call' = [op |-> "resolve_mode", n |-> call.n + 1, piece_id |-> piece_id,
                       before |-> mode_overrides, t |-> now, ret |-> r.ret]
    /\ UNCHANGED <<now, LearnerVars, args, temp_history, previous_modes, tick, self_data,
                   refresh_requested, calendar>>

ResolveNext == \E piece_id \in Rooms : ResolveMode(piece_id)

SpecResolve == ResolveInit /\ [][ResolveNext]_vars

\* ============================================================ SpecDerivative
\* _compute_derivative called again and again while the clock moves.
\* absent, 17.0 and 18.0 degrees
DerivativeTemps == {None, Some(170), Some(180)}

\* minutes the clock moves between two calls: set back by 5, none, the whole
\* window, more than the window
Elapsed == {-5, 0, DEFAULT_DERIVATIVE_WINDOW, DEFAULT_DERIVATIVE_WINDOW + 5}

DerivativeInit ==
    /\ now = 100
    /\ IdleLearner
    /\ CoordInit
    /\ args = None
    /\ call = [op |-> "none", n |-> 0, called |-> {}]

\* ChauffageIntelligentCoordinator._compute_derivative(piece_id, current_temp)
ComputeDerivative(piece_id, current_temp, elapsed) ==
    /\ call.n < MaxDerivativeCalls
    /\ \E r \in {compute_derivative(DefaultConfig, temp_history, piece_id, current_temp, now)} :
           /\ temp_history' = r.temp_history
           /\ call' = [op |-> "compute_derivative", n |-> call.n + 1, piece_id |-> piece_id,
                       current_temp |-> current_temp, t |-> now, before |-> temp_history,
                       first |-> piece_id \notin call.called,
                       called |-> call.called \cup {piece_id}, ret |-> r.ret]
    /\ now' = now + elapsed
    /\ UNCHANGED <<LearnerVars, mode_overrides, previous_modes, tick, self_data,
                   refresh_requested, calendar, args>>

DerivativeNext ==
    \E piece_id \in Rooms, current_temp \in DerivativeTemps, elapsed \in Elapsed :
        ComputeDerivative(piece_id, current_temp, elapsed)

SpecDerivative == DerivativeInit /\ [][DerivativeNext]_vars

\* ============================================================ SpecParse
\* _parse_calendar_events on drawn calendars, read at minute 10.
TxtConfortSpaces ==
    <<"C", "O", "N", "F", "O", "R", "T", " ", " ", " ", "B", "u", "r", "e", "a", "u">>
TxtConfortLower == <<"c", "o", "n", "f", "o", "r", "t", " ", "b", "u", "r", "e", "a", "u">>
TxtMenage == <<"M", "e", "n", "a", "g", "e">>

ParseSummaries ==
    {TxtAbsence, TxtConfort, TxtConfortBureau, TxtConfortSpaces, TxtConfortLower,
     TxtConfortCh1, TxtMenage}

\* the bounds of an event: around minute 10, starting or ending at it, after
\* it, before it, or with a bound missing
ParseBounds ==
    {<<Some(0), Some(20)>>, <<Some(10), Some(20)>>, <<Some(0), Some(10)>>,
     <<Some(11), Some(20)>>, <<Some(0), Some(9)>>, <<None, Some(20)>>, <<Some(0), None>>}

ParseEvents == {Event(summary, b[1], b[2]) : summary \in ParseSummaries, b \in ParseBounds}

ParseInit ==
    /\ now = 10
    /\ IdleLearner
    /\ CoordInit
    /\ args \in [events : Lists(ParseEvents, MaxParsedEvents)]
    /\ call = [op |-> "none", n |-> 0]

\* ChauffageIntelligentCoordinator._parse_calendar_events(events)
ParseCalendarEvents ==
    /\ call.op = "none"
    /\ call' = [op |-> "parse_calendar_events", n |-> call.n + 1, t |-> now,
                ret |-> parse_calendar_events(args.events, now)]
    /\ UNCHANGED <<now, LearnerVars, CoordVars, args>>

ParseNext == ParseCalendarEvents

SpecParse == ParseInit /\ [][ParseNext]_vars

\* ============================================================ Spec
\* The coordinator: ticks (_async_update_data), the override commands and the
\* clock.
EvBureauSoon == Event(TxtConfortBureau, Some(30), Some(90))
EvAbsence == Event(TxtAbsence, Some(0), Some(100))
EvConfort == Event(TxtConfort, Some(5), Some(100))
EvChambre == Event(TxtConfortChambre, Some(0), Some(8))

Calendars ==
    {<<>>, <<EvBureauSoon>>, <<EvAbsence, EvBureauSoon>>, <<EvChambre, EvConfort>>}

\* what the single configured presence tracker can report
TrackerStates == {<<Some("home")>>, <<Some("not_home")>>}

\* what _get_outdoor_temperature can return: nothing, or 5.0 degrees
OutdoorTemps == {Some(50)}

\* what can be read from the entities of a room: 16.8 or 17.5 degrees from the
\* probe of the bureau or 16.9 from its radiator, and nothing in the other room
EntityStates(piece_id) ==
    IF piece_id = "bureau"
    THEN {[e \in {"sensor.bureau", "climate.bureau"} |->
              IF e = "sensor.bureau" THEN Some(168) ELSE Some(200)],
          [e \in {"sensor.bureau", "climate.bureau"} |->
              IF e = "sensor.bureau" THEN Some(175) ELSE Some(200)],
          [e \in {"sensor.bureau", "climate.bureau"} |->
              IF e = "sensor.bureau" THEN None ELSE Some(169)],
          [e \in {"sensor.bureau", "climate.bureau"} |->
              IF e = "sensor.bureau" THEN None ELSE Unreadable]}
    ELSE {[e \in {"climate.ch1", "climate.ch1b"} |-> None],
          [e \in {"climate.ch1", "climate.ch1b"} |->
              IF e = "climate.ch1" THEN None ELSE Unreadable]}

\* five observations at 2.0 degrees per hour, as _load_data reads them
LoadedHistory ==
    [i \in 1..LEARNING_MIN_SAMPLES |->
        [rate |-> 2000, outdoor_temp |-> None, hour |-> 0, timestamp |-> 0]]

\* minutes between two ticks (DEFAULT_UPDATE_INTERVAL is 300 seconds)
UpdateInterval == 5

OverrideModes == {MODE_ECO, MODE_OFF}

OverrideDurations == {None, Some(5)}

Init ==
    /\ now = 0
    /\ learner_data = [r \in Rooms |-> IF r = "ch1" THEN LoadedHistory ELSE <<>>]
    /\ store = stored(learner_data)
    /\ accepted = learner_data
    /\ mode_overrides = <<>>
    /\ calendar \in Calendars
    /\ CoordFresh
    /\ args = None
    /\ call = [op |-> "none", n |-> 0]

\* _async_update_data up to the room loop: the calendar is asked for its events
\* (a failed call gives none), they are parsed, presence and the outdoor
\* temperature are read.
TickBegin(fetched, tracker_states, outdoor_temp) ==
    /\ tick.pc = "idle"
    /\ tick.n < MaxTicks
    /\ LET calendar_events == get_calendar_events(calendar, fetched)
       IN  tick' = [pc |-> "rooms", n |-> tick.n + 1, i |-> 1,
                    calendar_events |-> calendar_events,
                    parsed_events |-> parse_calendar_events(calendar_events, now),
                    maison_occupee |-> compute_presence(tracker_states),
                    outdoor_temp |-> outdoor_temp,
                    pieces_data |-> <<>>, commands |-> <<>>,
                    began_with |-> mode_overrides, fetched |-> fetched]
    /\ refresh_requested' = FALSE
    /\ UNCHANGED <<now, LearnerVars, mode_overrides, temp_history, previous_modes,
                   self_data, calendar, args, call>>

\* one turn of the room loop of _async_update_data
ProcessRoom(states, failing) ==
    /\ tick.pc = "rooms"
    /\ tick.i <= Len(RoomOrder)
    /\ DOMAIN states = room_entities(pieces[RoomOrder[tick.i]])
    /\ ~get_temperature_raises(pieces[RoomOrder[tick.i]], states)
    /\ \A entity_id \in failing :
           \E j \in 1..Len(pieces[RoomOrder[tick.i]].radiateurs) :
               pieces[RoomOrder[tick.i]].radiateurs[j] = entity_id
    /\ \E piece_id \in {RoomOrder[tick.i]} :
       \E r \in {process_room(DefaultConfig, piece_id, states, tick, mode_overrides,
                               temp_history, learner_data, now, failing)} :
           /\ mode_overrides' = r.mode_overrides
           /\ temp_history' = r.temp_history
           /\ learner_data' = r.learner_data
           /\ IF r.learns /\ rate_is_recorded(r.vitesse_mesuree)
              THEN \E outcome \in SaveOutcomes :
                       store' = save_data(store, r.learner_data, outcome)
              ELSE store' = store
           /\ accepted' = IF r.learns /\ InRange(r.vitesse_mesuree)
                          THEN [accepted EXCEPT ![piece_id] =
                                   Append(@, SpecObservation(r.vitesse_mesuree,
                                                             tick.outdoor_temp, None, now))]
                          ELSE accepted
           /\ previous_modes' = with(previous_modes, piece_id, r.decision.mode)
           /\ tick' = [tick EXCEPT !.i = @ + 1,
                                   !.pieces_data = with(@, piece_id, r.decision),
                                   !.commands = @ \o r.commands]
           /\ call' = [op |-> "process_room", n |-> call.n, piece_id |-> piece_id,
                       before |-> mode_overrides, t |-> now, resolved |-> r.resolved,
                       calendar_events |-> tick.calendar_events,
                       began_with |-> tick.began_with,
                       learned_before |-> learner_data,
                       fetched |-> tick.fetched,
                       tick |-> tick.n, failing |-> failing,
                       vitesse_mesuree |-> r.vitesse_mesuree,
                       decision |-> r.decision]
    /\ UNCHANGED <<now, self_data, refresh_requested, calendar, args>>

\* the return of _async_update_data: the result becomes coordinator.data
TickEnd ==
    /\ tick.pc = "rooms"
    /\ tick.i > Len(RoomOrder)
    /\ self_data' = update_data_result(tick.maison_occupee, tick.outdoor_temp,
                                       tick.pieces_data, FALSE)
    /\ tick' = IdleTick(tick.n)
    /\ UNCHANGED <<now, LearnerVars, mode_overrides, temp_history, previous_modes,
                   refresh_requested, calendar, args, call>>

\* one turn of the room loop of _async_update_data in which _get_temperature
\* raises: the error leaves the loop, `except Exception` raises UpdateFailed
\* and the call returns nothing
ProcessRoomRaises(states) ==
    /\ tick.pc = "rooms"
    /\ tick.i <= Len(RoomOrder)
    /\ states \in EntityStates(RoomOrder[tick.i])
    /\ get_temperature_raises(pieces[RoomOrder[tick.i]], states)
    /\ \E returned \in {update_data_result(tick.maison_occupee, tick.outdoor_temp,
                                           tick.pieces_data, TRUE)} :
           /\ self_data' = IF returned = None THEN self_data ELSE returned
           /\ call' = [op |-> "update_failed", n |-> call.n, piece_id |-> RoomOrder[tick.i],
                       tick |-> tick.n, returned |-> returned,
                       pieces_data |-> tick.pieces_data, commands |-> tick.commands,
                       data_before |-> self_data, temp_history |-> temp_history,
                       mode_overrides |-> mode_overrides, learner_data |-> learner_data]
    /\ tick' = IdleTick(tick.n)
    /\ UNCHANGED <<now, LearnerVars, mode_overrides, temp_history, previous_modes,
                   refresh_requested, calendar, args>>

\* async_set_mode_override(piece_id, mode, duration)
SetModeOverride(piece_id, mode, duration) ==
    /\ call.n < MaxCommands
    /\ mode_overrides' = set_mode_override(mode_overrides, piece_id, mode, duration, now)
    /\ refresh_requested' = TRUE
    /\ call' = [op |-> "set_mode_override", n |-> call.n + 1]
    /\ UNCHANGED <<now, LearnerVars, temp_history, previous_modes, tick, self_data,
                   calendar, args>>

\* async_reset_mode_override(piece_id), piece_id None for every room
ResetModeOverride(piece_id) ==
    /\ mode_overrides' = reset_mode_override(mode_overrides, piece_id)
    /\ refresh_requested' = TRUE
    /\ call' = [op |-> "reset_mode_override", n |-> call.n]
    /\ UNCHANGED <<now, LearnerVars, temp_history, previous_modes, tick, self_data,
                   calendar, args>>

\* time passes
Advance ==
    /\ now + UpdateInterval <= MaxTime
    /\ now' = now + UpdateInterval
    /\ UNCHANGED <<LearnerVars, CoordVars, args, call>>

Next ==
    \/ \E tracker_states \in TrackerStates, outdoor_temp \in OutdoorTemps :
            TickBegin(TRUE, tracker_states, outdoor_temp)
    \/ \E states \in UNION {EntityStates(r) : r \in Rooms} : ProcessRoom(states, {})
    \/ TickEnd
    \/ \E piece_id \in Rooms, mode \in OverrideModes, duration \in OverrideDurations :
            SetModeOverride(piece_id, mode, duration)
    \/ \E piece_id \in {None} \cup {Some(r) : r \in Rooms} : ResetModeOverride(piece_id)
    \/ Advance

Spec == Init /\ [][Next]_vars

\* ============================================================ SpecTick
\* The ticks alone, begun with an override store that earlier commands left:
\* empty, or one room overridden.
StoredOverrides ==
    {<<>>} \cup {with(<<>>, r, [mode |-> m, expiry |-> x]) :
                    r \in Rooms, m \in MODES, x \in {None, Some(UpdateInterval)}}

TickInit ==
    /\ now = 0
    /\ learner_data = [r \in Rooms |-> IF r = "ch1" THEN LoadedHistory ELSE <<>>]
    /\ store = stored(learner_data)
    /\ accepted = learner_data
    /\ mode_overrides \in StoredOverrides
    /\ calendar \in Calendars
    /\ CoordFresh
    /\ args = None
    /\ call = [op |-> "none", n |-> 0]

TickNext ==
    \/ \E tracker_states \in TrackerStates, outdoor_temp \in OutdoorTemps :
            TickBegin(TRUE, tracker_states, outdoor_temp)
    \/ \E states \in UNION {EntityStates(r) : r \in Rooms} : ProcessRoom(states, {})
    \/ TickEnd
    \/ Advance

SpecTick == TickInit /\ [][TickNext]_vars

\* ============================================================ SpecFault
\* The ticks with their failures: the get_events call of the calendar can
\* raise, and so can the reading of a room's temperature.  They begin with no
\* override, with a Comfort override of the bureau, or with an Off override of
\* the room ch1 that expires.
FaultOverrides ==
    {<<>>,
     with(<<>>, "bureau", [mode |-> MODE_CONFORT, expiry |-> None]),
     with(<<>>, "ch1", [mode |-> MODE_OFF, expiry |-> Some(UpdateInterval)])}

FaultInit ==
    /\ now = 0
    /\ learner_data = [r \in Rooms |-> IF r = "ch1" THEN LoadedHistory ELSE <<>>]
    /\ store = stored(learner_data)
    /\ accepted = learner_data
    /\ mode_overrides \in FaultOverrides
    /\ calendar \in Calendars
    /\ CoordFresh
    /\ args = None
    /\ call = [op |-> "none", n |-> 0]

FaultNext ==
    \/ \E fetched \in BOOLEAN, tracker_states \in TrackerStates, outdoor_temp \in OutdoorTemps :
            TickBegin(fetched, tracker_states, outdoor_temp)
    \/ \E states \in UNION {EntityStates(r) : r \in Rooms} : ProcessRoom(states, {})
    \/ \E states \in UNION {EntityStates(r) : r \in Rooms} : ProcessRoomRaises(states)
    \/ TickEnd
    \/ Advance

SpecFault == FaultInit /\ [][FaultNext]_vars

\* ============================================================ SpecCommands
\* The ticks with set_temperature calls that fail.  They begin with no
\* override or with an Off override of the room ch1.
AllRadiators ==
    UNION {{pieces[r].radiateurs[i] : i \in 1..Len(pieces[r].radiateurs)} : r \in Rooms}

CommandOverrides ==
    {<<>>, with(<<>>, "ch1", [mode |-> MODE_OFF, expiry |-> None])}

CommandInit ==
    /\ now = 0
    /\ learner_data = [r \in Rooms |-> IF r = "ch1" THEN LoadedHistory ELSE <<>>]
    /\ store = stored(learner_data)
    /\ accepted = learner_data
    /\ mode_overrides \in CommandOverrides
    /\ calendar \in {<<>>, <<EvAbsence, EvBureauSoon>>}
    /\ CoordFresh
    /\ args = None
    /\ call = [op |-> "none", n |-> 0]

CommandNext ==
    \/ \E tracker_states \in TrackerStates, outdoor_temp \in OutdoorTemps :
            TickBegin(TRUE, tracker_states, outdoor_temp)
    \/ \E states \in UNION {EntityStates(r) : r \in Rooms}, failing \in SUBSET AllRadiators :
            ProcessRoom(states, failing)
    \/ TickEnd
    \/ Advance

SpecCommands == CommandInit /\ [][CommandNext]_vars

\* ============================================================ SpecService
\* The set_mode and reset_mode services called again and again while the clock
\* moves, each room resolved in between as the ticks resolve it.
ServiceModes == MODES \cup {"auto", "boost"}

ServiceDurations == {None, Some(0), Some(UpdateInterval)}

ServiceSignals ==
    {[absence |-> FALSE, confort_global |-> FALSE, confort_pieces |-> {}],
     [absence |-> FALSE, confort_global |-> TRUE, confort_pieces |-> {}],
     [absence |-> TRUE, confort_global |-> FALSE, confort_pieces |-> {}]}

ServiceInit ==
    /\ now = 0
    /\ IdleLearner
    /\ mode_overrides = <<>>
    /\ calendar = <<>>
    /\ CoordFresh
    /\ args \in [parsed_events : ServiceSignals, maison_occupee : BOOLEAN]
    /\ call = [op |-> "none", n |-> 0]

\* handle_set_mode(call), with async_set_mode_override when the mode is valid
HandleSetMode(piece, mode, duree) ==
    /\ call.n < MaxServiceCalls
    /\ IF is_valid_mode(mode)
       THEN /\ mode_overrides' = set_mode_override(mode_overrides, piece, mode, duree, now)
            /\ refresh_requested' = TRUE
       ELSE UNCHANGED <<mode_overrides, refresh_requested>>
    /\ call' = [op |-> "set_mode", n |-> call.n + 1, piece |-> piece, mode |-> mode,
                duree |-> duree, t |-> now, before |-> mode_overrides,
                refresh_before |-> refresh_requested, raised |-> FALSE]
    /\ UNCHANGED <<now, LearnerVars, temp_history, previous_modes, tick, self_data,
                   calendar, args>>

\* handle_reset_mode(call), with async_reset_mode_override
HandleResetMode(piece) ==
    /\ mode_overrides' = reset_mode_override(mode_overrides, piece)
    /\ refresh_requested' = TRUE
    /\ call' = [op |-> "reset_mode", n |-> call.n, piece |-> piece,
                before |-> mode_overrides]
    /\ UNCHANGED <<now, LearnerVars, temp_history, previous_modes, tick, self_data,
                   calendar, args>>

ServiceNext ==
    \/ \E piece \in Rooms, mode \in ServiceModes, duree \in ServiceDurations :
            HandleSetMode(piece, mode, duree)
    \/ \E piece \in {None} \cup {Some(r) : r \in Rooms} : HandleResetMode(piece)
    \/ \E piece_id \in Rooms : ResolveMode(piece_id)
    \/ Advance

SpecService == ServiceInit /\ [][ServiceNext]_vars

\* ============================================================ SpecRooms
\* The ticks of a house where somebody is home and both rooms give a
\* temperature, with the services called while a tick is suspended at an
\* external call: set_mode puts the bureau in Eco, reset_mode resets either
\* room.  They begin with the Off override of the room ch1 that an earlier
\* command left, and the bureau's comfort event is 30 minutes away.
RoomReadings(piece_id) ==
    IF piece_id = "bureau"
    THEN {[e \in {"sensor.bureau", "climate.bureau"} |->
              IF e = "sensor.bureau" THEN Some(t) ELSE None] : t \in {168, 169}}
    ELSE {[e \in {"climate.ch1", "climate.ch1b"} |->
              IF e = "climate.ch1" THEN Some(t) ELSE None] : t \in {150}}

RoomsInit ==
    /\ now = 0
    /\ learner_data = [r \in Rooms |-> IF r = "ch1" THEN LoadedHistory ELSE <<>>]
    /\ store = stored(learner_data)
    /\ accepted = learner_data
    /\ mode_overrides = with(<<>>, "ch1", [mode |-> MODE_OFF, expiry |-> None])
    /\ calendar = <<EvBureauSoon>>
    /\ CoordFresh
    /\ args = None
    /\ call = [op |-> "none", n |-> 0]

RoomsNext ==
    \/ \E outdoor_temp \in OutdoorTemps : TickBegin(TRUE, <<Some(STATE_HOME)>>, outdoor_temp)
    \/ \E states \in UNION {RoomReadings(r) : r \in Rooms} : ProcessRoom(states, {})
    \/ TickEnd
    \/ \E duree \in OverrideDurations :
            /\ tick.pc = "rooms"
            /\ call.n < MaxCommands
            /\ HandleSetMode("bureau", MODE_ECO, duree)
    \/ \E piece \in {Some(r) : r \in Rooms} :
            /\ tick.pc = "rooms"
            /\ HandleResetMode(piece)
    \/ Advance

SpecRooms == RoomsInit /\ [][RoomsNext]_vars

\* ============================================================ claims
\* The first rule of a priority list whose condition holds: rules are
\* <<condition, result>> pairs, the last one unconditional.
FirstMatch(rules) ==
    rules[CHOOSE i \in 1..Len(rules) :
              rules[i][1] /\ \A j \in 1..(i - 1) : ~rules[j][1]][2]

\* an override stored for the room that has no expiry or expires after t
Unexpired(overrides, p, t) ==
    /\ p \in DOMAIN overrides
    /\ overrides[p].expiry # None => overrides[p].expiry[1] > t

\* The fixed priority order of the mode resolution, for room p.
PriorityOrder(overrides, p, signals, occupied, t) ==
    << <<Unexpired(overrides, p, t),
         <<IF p \in DOMAIN overrides THEN overrides[p].mode ELSE MODE_ECO, "override">> >>,
       <<signals.absence, <<"hors_gel", "calendrier">> >>,
       <<~occupied, <<"eco", "presence">> >>,
       <<signals.confort_pieces \cap {lower(pieces[p].name), lower(id_text[p])} # {},
         <<"confort", "calendrier">> >>,
       <<signals.confort_global, <<"confort", "calendrier">> >>,
       <<TRUE, <<"eco", "defaut">> >> >>

\* C1: for every room, calendar signal set, presence value and override state,
\* _resolve_mode returns the first match of the priority order unexpired
\* override, absence, nobody home, room comfort, global comfort, default; so an
\* active override wins over absence, absence over a room comfort event, and
\* presence-false over global comfort.
C1_FirstMatchOfPriorityOrder ==
    call.op = "resolve_mode" =>
        LET p == call.piece_id
            signals == args.parsed_events
            active == Unexpired(call.before, p, now)
        IN  /\ call.ret = FirstMatch(PriorityOrder(call.before, p, signals,
                                                   args.maison_occupee, now))
            /\ active /\ signals.absence => call.ret = <<call.before[p].mode, "override">>
            /\ ~active /\ signals.absence /\ lower(pieces[p].name) \in signals.confort_pieces
                   => call.ret = <<"hors_gel", "calendrier">>
            /\ ~active /\ ~signals.absence /\ ~args.maison_occupee /\ signals.confort_global
                   => call.ret = <<"eco", "presence">>

\* an unexpired Off override was resolved during an absence event, with a comfort
\* event of the room active too
C1_Witness ==
    /\ call.op = "resolve_mode"
    /\ call.piece_id = "ch1"
    /\ "ch1" \in DOMAIN call.before
    /\ call.before["ch1"] = [mode |-> MODE_OFF, expiry |-> Some(10)]
    /\ now = 9
    /\ args.parsed_events.absence
    /\ piece_name("ch1") \in args.parsed_events.confort_pieces
    /\ call.ret = <<MODE_OFF, SOURCE_OVERRIDE>>

\* C3: when _resolve_mode reads a room whose stored override has an expiry not
\* later than now, it deletes that room's entry (and no other) and resolves the
\* room as if no override existed; an override with no expiry or a later expiry
\* is never deleted by resolution.
C3_ExpiredOverridePurged ==
    call.op = "resolve_mode" =>
        LET p == call.piece_id
            expired == /\ p \in DOMAIN call.before
                       /\ call.before[p].expiry # None
                       /\ call.before[p].expiry[1] <= now
        IN  IF expired
            THEN /\ DOMAIN mode_overrides = DOMAIN call.before \ {p}
                 /\ \A q \in DOMAIN mode_overrides : mode_overrides[q] = call.before[q]
                 /\ call.ret = FirstMatch(PriorityOrder(<<>>, p, args.parsed_events,
                                                        args.maison_occupee, now))
            ELSE mode_overrides = call.before

\* an override expiring exactly now was read: it is gone, the other room's
\* override is still stored, and the room follows the calendar
C3_Witness ==
    /\ call.op = "resolve_mode"
    /\ call.piece_id = "bureau"
    /\ DOMAIN call.before = Rooms
    /\ call.before["bureau"] = [mode |-> MODE_OFF, expiry |-> Some(10)]
    /\ now = 10
    /\ DOMAIN mode_overrides = {"ch1"}
    /\ call.ret = <<MODE_HORS_GEL, SOURCE_CALENDAR>>

\* C2: a manual override takes priority over everything: every decision
\* emitted for a room by a tick that began after the override was set, while
\* the override is still stored and unexpired, has the override's mode and the
\* source 'override', whatever the calendar, the presence and the temperatures
\* are.
C2_AsStated ==
    call.op = "process_room" =>
        LET p == call.piece_id
        IN  (/\ Unexpired(call.before, p, call.t)
             /\ p \in DOMAIN call.began_with
             /\ call.began_with[p] = call.before[p])
            => /\ call.decision.mode = call.before[p].mode
               /\ call.decision.source = "override"

\* the comfort events of the calendar that concern room p and start after t
UpcomingComfort(p, events, t) ==
    {i \in 1..Len(events) :
        /\ normalize_summary(events[i].summary) \in
               {EVENT_CONFORT,
                EVENT_CONFORT \o <<" ">> \o lower(pieces[p].name),
                EVENT_CONFORT \o <<" ">> \o lower(id_text[p])}
        /\ events[i].start # None
        /\ events[i].start[1] > t}

\* the preheat trigger of the tick, as the anticipation rule words it: the
\* room's next comfort event starts within the preheat minutes
TriggerFires(p, events, minutes, t) ==
    LET starts == {events[i].start[1] : i \in UpcomingComfort(p, events, t)}
    IN  starts # {} /\ \E next \in starts :
            (\A other \in starts : next <= other) /\ next - t <= minutes

\* the room decisions of the tick in progress and of the last result, each
\* with its room
EmittedDecisions ==
    {<<p, tick.pieces_data[p]>> : p \in DOMAIN tick.pieces_data}
    \cup (IF self_data = None THEN {}
          ELSE {<<p, self_data[1].pieces[p]>> : p \in DOMAIN self_data[1].pieces})

\* C4: in every emitted room decision the source is 'anticipation' iff the
\* preheat trigger fired for the room in that tick and the resolver returned
\* Eco; then the mode is Comfort, the target the room's Comfort temperature
\* and preheat_active true; resolved Comfort, FrostGuard and Off are never
\* changed by anticipation.
C4_AnticipationIffTriggerAndEco ==
    /\ call.op = "process_room" =>
           LET d == call.decision
               fired == TriggerFires(call.piece_id, call.calendar_events,
                                     d.temps_prechauffage, call.t)
           IN  /\ d.source = "anticipation" <=> (fired /\ call.resolved[1] = "eco")
               /\ d.prechauffage_actif <=> fired
               /\ call.resolved[1] \in {"confort", "hors_gel", "off"} =>
                      d.mode = call.resolved[1] /\ d.source = call.resolved[2]
    /\ \A e \in EmittedDecisions :
           e[2].source = "anticipation" =>
               /\ e[2].mode = "confort"
               /\ e[2].consigne = pieces[e[1]].temperatures["confort"]
               /\ e[2].prechauffage_actif

\* The trigger fired for the bureau under an Off override, which the tick
\* emitted unchanged; in the next tick the override is over, the resolver gives
\* Eco by default, the trigger fires again and the room is emitted as Comfort
\* by anticipation.
C4_Witness ==
    /\ self_data # None
    /\ self_data[1].pieces["bureau"].mode = MODE_OFF
    /\ self_data[1].pieces["bureau"].source = SOURCE_OVERRIDE
    /\ self_data[1].pieces["bureau"].prechauffage_actif
    /\ call.op = "process_room"
    /\ call.piece_id = "bureau"
    /\ call.resolved = <<MODE_ECO, SOURCE_DEFAULT>>
    /\ call.decision.prechauffage_actif
    /\ call.decision.mode = MODE_CONFORT
    /\ call.decision.source = SOURCE_ANTICIPATION
    /\ call.decision.consigne = 190

\* C5: _check_preheat_trigger is true iff the room has a next comfort event
\* (the earliest relevant event starting after the clock read that selects it)
\* and 0 < minutes until its start <= preheat minutes, the minutes being counted
\* from the trigger's own clock read.
C5_TriggerIffWithinPreheat ==
    call.op = "check_preheat_trigger" =>
        LET events == args.calendar_events
            upcoming == UpcomingComfort(call.piece_id, events, call.t2)
            starts == {events[i].start[1] : i \in upcoming}
        IN  call.ret <=>
                /\ upcoming # {}
                /\ \E next \in starts :
                       /\ \A other \in starts : next <= other
                       /\ 0 < next - call.t1
                       /\ next - call.t1 <= call.preheat_time

\* the trigger fired for an event that starts exactly preheat minutes after the
\* trigger's clock read, an earlier event having started between the two reads
C5_Witness ==
    /\ call.op = "check_preheat_trigger"
    /\ call.ret
    /\ call.t1 = 10
    /\ call.t2 = 15
    /\ call.preheat_time = 30
    /\ \E i \in 1..Len(args.calendar_events) :
           args.calendar_events[i] = Event(TxtConfort, Some(12), Some(42))
    /\ \E i \in 1..Len(args.calendar_events) :
           args.calendar_events[i].start = Some(40)

\* C6: compute_preheat_time returns the minimum preheat time when the current
\* temperature is absent, 0 when target - current <= 0, and otherwise
\* max(trunc((target - current) / rate * 60 * factor), minimum) with rate the
\* supplied rate when present and > 0 and 1.0 otherwise; so the result is 0 or
\* at least the minimum.
C6_PreheatTime ==
    call.op = "compute_preheat_time" =>
        LET minimum == args.self.min_preheat_time
            factor == args.self.security_factor
            given == args.heating_rate
            rate == IF given # None /\ given[1] * given[2] > 0 THEN given ELSE <<1, 1>>
        IN  /\ args.current_temp = None => call.ret = minimum
            /\ args.current_temp # None /\ args.target_temp - args.current_temp[1] <= 0
                   => call.ret = 0
            /\ args.current_temp # None /\ args.target_temp - args.current_temp[1] > 0
                   => LET delta == args.target_temp - args.current_temp[1]
                          \* x = (delta/10) / (rate[1]/rate[2]) * 60 * (factor/10)
                          \*   = num / den, and trunc(x) = m iff m <= x < m + 1
                          num == delta * rate[2] * 60 * factor
                          den == 100 * rate[1]
                      IN  \E m \in 0..call.ret :
                              /\ m * den <= num
                              /\ num < (m + 1) * den
                              /\ call.ret = (IF m >= minimum THEN m ELSE minimum)
            /\ call.ret = 0 \/ call.ret >= minimum

\* 17.0 -> 20.0 degrees at 1.5 degrees per hour with factor 1.3: 156 minutes,
\* above the minimum of 30
C6_Witness ==
    /\ call.op = "compute_preheat_time"
    /\ args.current_temp = Some(170)
    /\ args.target_temp = 200
    /\ args.heating_rate = <<3, 2>>
    /\ args.self.security_factor = DEFAULT_SECURITY_FACTOR
    /\ args.self.min_preheat_time = DEFAULT_MIN_PREHEAT_TIME
    /\ call.ret = 156

\* ---- C7.  As stated: for all rates r with 0.3 < r <= 5.0 record_observation
\* increases the room's sample count by 1; for any other rate the stored
\* history is unchanged.
C7_AsStated ==
    call.op = "record_observation" =>
        IF InRange(call.heating_rate)
        THEN Len(learner_data[call.piece_id]) = Len(call.before[call.piece_id]) + 1
        ELSE learner_data = call.before

\* C7, amended: for 0.3 < r <= 5.0 record_observation increases the room's
\* sample count by 1 when the room holds fewer than 100 samples and leaves it
\* at 100 when it holds 100; for any other rate the stored history (of every
\* room) is unchanged.
C7_RecordCount ==
    call.op = "record_observation" =>
        IF InRange(call.heating_rate)
        THEN Len(learner_data[call.piece_id]) =
                 IF Len(call.before[call.piece_id]) < 100
                 THEN Len(call.before[call.piece_id]) + 1
                 ELSE 100
        ELSE learner_data = call.before

\* The rate 5.0, the upper end of the range, has been recorded as one more sample.
C7_Witness ==
    /\ call.op = "record_observation"
    /\ call.heating_rate = <<5, 1>>
    /\ Len(learner_data[call.piece_id]) = Len(call.before[call.piece_id]) + 1

\* the last n elements of a sequence
LastN(seq, n) ==
    IF Len(seq) > n THEN [i \in 1..n |-> seq[Len(seq) - n + i]] ELSE seq

\* ---- C8.  Every room's history holds at most 100 observations, and they
\* are exactly the most recently accepted observations of the room, in the
\* order they were appended.
C8_HistoryIsLastAccepted ==
    \A r \in Rooms :
        /\ Len(learner_data[r]) <= 100
        /\ learner_data[r] = LastN(accepted[r], 100)

\* A room has accepted more than 100 observations: the oldest were evicted.
C8_Witness ==
    \E r \in Rooms :
        /\ Len(accepted[r]) > 100
        /\ call.op = "record_observation"
        /\ call.piece_id = r
        /\ Len(call.before[r]) = 100
        /\ learner_data[r][1] = call.before[r][2]

\* ---- C9.  get_predicted_rate returns absent iff the room has fewer than 5
\* stored samples; given 5 or more samples that all have the same rate R it
\* returns R, for any query hour and outdoor temperature.
C9_PredictedRate ==
    call.op = "get_predicted_rate" =>
        LET samples == learner_data[call.piece_id]
        IN  /\ (Len(samples) < 5) <=> (call.ret = None)
            /\ (/\ Len(samples) >= 5
                /\ \A i \in 1..Len(samples) : samples[i].rate = samples[1].rate)
               => call.ret[1] * 1000 = samples[1].rate * call.ret[2]

\* A prediction was made, for an outdoor temperature, from 5 or more samples
\* of one rate taken at different hours, with and without outdoor temperature.
C9_Witness ==
    /\ call.op = "get_predicted_rate"
    /\ call.outdoor_temp # None
    /\ LET samples == learner_data[call.piece_id]
       IN  /\ Len(samples) >= 5
           /\ \A i \in 1..Len(samples) : samples[i].rate = samples[1].rate
           /\ \E i, j \in 1..Len(samples) :
                /\ samples[i].hour # samples[j].hour
                /\ samples[i].outdoor_temp # samples[j].outdoor_temp
           /\ call.ret # None

\* The time periods as the specification gives them: night 22-6, morning
\* 6-12, afternoon 12-18, evening 18-22.
SpecPeriod(h) ==
    IF h >= 22 \/ h < 6 THEN "night"
    ELSE IF h < 12 THEN "morning"
    ELSE IF h < 18 THEN "afternoon"
    ELSE "evening"

\* The weight of a sample as the specification gives it, in quarters.
SpecWeight(sample, outdoor_temp, hour) ==
    LET period == IF SpecPeriod(sample.hour) = SpecPeriod(hour) THEN 3 ELSE 2
        outdoor == IF outdoor_temp = None \/ sample.outdoor_temp = None THEN 2
                   ELSE IF Abs(outdoor_temp[1] - sample.outdoor_temp[1]) <= 50 THEN 3
                   ELSE IF Abs(outdoor_temp[1] - sample.outdoor_temp[1]) <= 100 THEN 2
                   ELSE 1
    IN  period * outdoor

\* The samples are split between two hour-periods, with one rate in each
\* period and different rates in the two periods.
SplitBetweenTwoPeriods(samples) ==
    /\ Len(samples) >= 5
    /\ Cardinality({SpecPeriod(samples[i].hour) : i \in 1..Len(samples)}) = 2
    /\ \A i, j \in 1..Len(samples) :
         (SpecPeriod(samples[i].hour) = SpecPeriod(samples[j].hour))
            <=> (samples[i].rate = samples[j].rate)

\* the positions of the samples of the period of hour h, and of the other period
InPeriod(samples, h) == {i \in 1..Len(samples) : SpecPeriod(samples[i].hour) = SpecPeriod(h)}

OutOfPeriod(samples, h) == {i \in 1..Len(samples) : SpecPeriod(samples[i].hour) # SpecPeriod(h)}

\* the prediction ret is closer to the rate a than to the rate b (thousandths)
Closer(ret, a, b) == Abs(ret[1] * 1000 - a * ret[2]) < Abs(ret[1] * 1000 - b * ret[2])

RECURSIVE SumWeights(_, _, _, _)
SumWeights(samples, idx, outdoor_temp, hour) ==
    IF idx = {} THEN 0
    ELSE LET i == CHOOSE i \in idx : TRUE
         IN  SpecWeight(samples[i], outdoor_temp, hour)
             + SumWeights(samples, idx \ {i}, outdoor_temp, hour)

\* a query made within one of the two periods of a split history
SplitQuery ==
    /\ call.op = "get_predicted_rate"
    /\ SplitBetweenTwoPeriods(learner_data[call.piece_id])
    /\ InPeriod(learner_data[call.piece_id], call.hour) # {}

\* ---- C10.  As stated: given samples split between two disjoint
\* hour-periods with different rates, a prediction queried within a period is
\* closer to that period's rate than to the other period's rate, for every
\* split of the samples.
C10_AsStated ==
    SplitQuery =>
        LET samples == learner_data[call.piece_id]
            own == CHOOSE i \in InPeriod(samples, call.hour) : TRUE
            other == CHOOSE i \in OutOfPeriod(samples, call.hour) : TRUE
        IN  Closer(call.ret, samples[own].rate, samples[other].rate)

\* C10, amended: given samples split between two disjoint hour-periods with
\* different rates, a prediction queried within a period is closer to that
\* period's rate than to the other period's rate exactly when the weights of
\* that period's samples sum to more than the weights of the other period's
\* samples (without outdoor temperatures: when 3 times the number of that
\* period's samples exceeds 2 times the number of the other's, as in an even
\* split).
C10_CloserIffHeavier ==
    SplitQuery =>
        LET samples == learner_data[call.piece_id]
            own == CHOOSE i \in InPeriod(samples, call.hour) : TRUE
            other == CHOOSE i \in OutOfPeriod(samples, call.hour) : TRUE
        IN  /\ Closer(call.ret, samples[own].rate, samples[other].rate)
               <=> SumWeights(samples, InPeriod(samples, call.hour),
                              call.outdoor_temp, call.hour)
                   > SumWeights(samples, OutOfPeriod(samples, call.hour),
                                call.outdoor_temp, call.hour)
            /\ call.outdoor_temp = None =>
                 (Closer(call.ret, samples[own].rate, samples[other].rate)
                    <=> 3 * Cardinality(InPeriod(samples, call.hour))
                        > 2 * Cardinality(OutOfPeriod(samples, call.hour)))

\* An even split (3 and 3) queried without outdoor temperature within one of
\* the periods: the prediction is closer to that period's rate.
C10_Witness ==
    /\ SplitQuery
    /\ call.outdoor_temp = None
    /\ LET samples == learner_data[call.piece_id]
           own == CHOOSE i \in InPeriod(samples, call.hour) : TRUE
           other == CHOOSE i \in OutOfPeriod(samples, call.hour) : TRUE
       IN  /\ Cardinality(InPeriod(samples, call.hour)) = 3
           /\ Cardinality(OutOfPeriod(samples, call.hour)) = 3
           /\ Closer(call.ret, samples[own].rate, samples[other].rate)

\* ---- C11.  Round trip: after N valid observations have been recorded and
\* saved for a room, a freshly constructed learner that loads the same store
\* reports the same sample count and the same predicted rate for the room (for
\* every query hour and outdoor temperature) as the learner that recorded them.
C11_RoundTrip ==
    (call.op = "load_data" /\ call.saved) =>
        \A r \in Rooms :
            /\ get_stats(call.loaded, r).samples = get_stats(learner_data, r).samples
            /\ \A outdoor_temp \in QueryOutdoor, hour \in QueryHours :
                   get_predicted_rate(call.loaded, r, outdoor_temp, hour, now)
                       = get_predicted_rate(learner_data, r, outdoor_temp, hour, now)

\* a second learner was constructed after the 100th observation of the bureau,
\* one with an outdoor temperature, was recorded and saved: it predicts a rate
C11_Witness ==
    /\ call.op = "load_data"
    /\ call.saved
    /\ Len(call.loaded["bureau"]) = 100
    /\ call.loaded["bureau"][100].outdoor_temp = Some(50)
    /\ get_predicted_rate(call.loaded, "bureau", Some(20), None, now) # None

\* ---- C12.  If the save fails during record_observation, no error reaches
\* the caller and the accepted observation stays in the in-memory history
\* (visible to get_stats and get_predicted_rate); every save writes the whole
\* in-memory map of all rooms, so a record_observation whose save succeeds
\* makes the store equal to memory again.
C12_SaveFailureSwallowed ==
    (call.op = "record_observation" /\ InRange(call.heating_rate)) =>
        LET p == call.piece_id
            samples == learner_data[p]
            kept == IF Len(call.before[p]) < 100 THEN call.before[p]
                    ELSE Tail(call.before[p])
        IN  /\ call.raised = None
            /\ call.outcome # "no_save"
            /\ call.outcome # "saved" =>
                   /\ Len(samples) = Len(kept) + 1
                   /\ SubSeq(samples, 1, Len(kept)) = kept
                   /\ samples[Len(samples)].rate = round3(call.heating_rate)
                   /\ get_stats(learner_data, p).samples = Len(samples)
                   /\ Len(samples) >= 5 =>
                          get_predicted_rate(learner_data, p, None, None, now) # None
            /\ call.outcome = "saved" =>
                   /\ store.state = "ok"
                   /\ load_data(store) = learner_data

\* a save that failed left the file unreadable while the other room's
\* observation stayed in memory; the next observation was saved, and the file
\* holds the histories of both rooms again
C12_Witness ==
    /\ call.op = "record_observation"
    /\ InRange(call.heating_rate)
    /\ call.outcome = "saved"
    /\ call.file_before.state = "corrupt"
    /\ \A r \in Rooms : learner_data[r] # <<>>
    /\ load_data(store) = learner_data

\* the window of room p in a _temp_history, empty when the room has none
Window(histories, p) == IF p \in DOMAIN histories THEN histories[p] ELSE <<>>

\* ---- C13.  _compute_derivative returns absent on the first call for a room,
\* whenever fewer than 2 samples remain after pruning, and whenever the time
\* elapsed between the oldest and the newest retained sample is zero or
\* negative; when the current temperature is absent it returns absent and
\* leaves the room's history unchanged.
C13_DerivativeAbsent ==
    call.op = "compute_derivative" =>
        LET window == Window(temp_history, call.piece_id)
        IN  /\ call.first => call.ret = None
            /\ Window(call.before, call.piece_id) = <<>> => call.ret = None
            /\ Len(window) < 2 => call.ret = None
            /\ (Len(window) >= 2 /\ window[Len(window)][1] - window[1][1] <= 0)
                   => call.ret = None
            /\ call.current_temp = None =>
                   /\ call.ret = None
                   /\ temp_history = call.before

\* two temperatures were read in the same minute: the window holds both and
\* no rate is returned
C13_Witness ==
    /\ call.op = "compute_derivative"
    /\ call.current_temp = Some(180)
    /\ ~call.first
    /\ Len(Window(temp_history, call.piece_id)) = 2
    /\ temp_history[call.piece_id][1] = <<call.t, 170>>
    /\ call.ret = None

\* ---- C14.  After every _compute_derivative call made at time now with a
\* present temperature, the room's window has the new sample (now, temperature)
\* as its last element and holds no sample with a timestamp earlier than now
\* minus the derivative window; when a rate is returned it equals (newest
\* temperature - oldest retained temperature) divided by the hours between
\* those two samples, so it is positive while heating, negative while cooling
\* and zero when stable.
C14_WindowAndRate ==
    (call.op = "compute_derivative" /\ call.current_temp # None) =>
        LET window == Window(temp_history, call.piece_id)
            newest == window[Len(window)]
            oldest == window[1]
            \* tenths of a degree, and minutes
            rise == newest[2] - oldest[2]
            minutes == newest[1] - oldest[1]
        IN  /\ window # <<>>
            /\ newest = <<call.t, call.current_temp[1]>>
            /\ \A i \in 1..Len(window) :
                   window[i][1] >= call.t - DEFAULT_DERIVATIVE_WINDOW
            /\ call.ret # None =>
                   \* ret = (rise / 10) / (minutes / 60) degrees per hour
                   /\ minutes > 0
                   /\ call.ret[2] > 0
                   /\ call.ret[1] * minutes * 10 = rise * 60 * call.ret[2]
                   /\ rise > 0 <=> call.ret[1] > 0
                   /\ rise < 0 <=> call.ret[1] < 0
                   /\ rise = 0 <=> call.ret[1] = 0

\* 17.0 degrees were read, then 18.0 degrees 30 minutes later: the first sample
\* is on the edge of the window and kept, the rate is 2.0 degrees per hour
C14_Witness ==
    /\ call.op = "compute_derivative"
    /\ call.current_temp = Some(180)
    /\ temp_history[call.piece_id] =
           <<<<call.t - DEFAULT_DERIVATIVE_WINDOW, 170>>, <<call.t, 180>>>>
    /\ call.ret # None
    /\ call.ret[1] = 2 * call.ret[2]

\* What each summary drawn for the calendar asks for: an absence, comfort
\* everywhere, comfort in the room of a given name, or nothing.
Meaning(summary) ==
    CASE summary = TxtAbsence -> [kind |-> "absence", piece |-> <<>>]
      [] summary = TxtConfort -> [kind |-> "confort", piece |-> <<>>]
      [] summary \in {TxtConfortBureau, TxtConfortSpaces, TxtConfortLower} ->
             [kind |-> "piece", piece |-> <<"b", "u", "r", "e", "a", "u">>]
      [] summary = TxtConfortCh1 -> [kind |-> "piece", piece |-> <<"c", "h", "1">>]
      [] OTHER -> [kind |-> "none", piece |-> <<>>]

\* the events of a list that have both bounds and contain minute t
ActiveAt(events, t) ==
    {i \in 1..Len(events) :
        /\ events[i].start # None
        /\ events[i].end # None
        /\ events[i].start[1] <= t
        /\ t <= events[i].end[1]}

\* ---- C15.  _parse_calendar_events sets the absence flag, the global-comfort
\* flag and the comfort-rooms set only from events that have both bounds and
\* satisfy start <= now <= end.  The summary is matched after lowercasing,
\* trimming and replacing ' - ' by one space, so 'CONFORT   Bureau', 'confort
\* bureau' and 'Confort - Bureau' all add 'bureau'.  Flags coming from
\* different simultaneously active events are all set together.
C15_ParsedFromActiveEvents ==
    call.op = "parse_calendar_events" =>
        LET events == args.events
            active == ActiveAt(events, call.t)
        IN  /\ call.ret.absence <=>
                   \E i \in active : Meaning(events[i].summary).kind = "absence"
            /\ call.ret.confort_global <=>
                   \E i \in active : Meaning(events[i].summary).kind = "confort"
            /\ call.ret.confort_pieces =
                   {Meaning(events[i].summary).piece :
                        i \in {j \in active : Meaning(events[j].summary).kind = "piece"}}

\* an absence that ends now and 'CONFORT   Bureau' that starts now were parsed:
\* both signals are set
C15_Witness ==
    /\ call.op = "parse_calendar_events"
    /\ args.events = <<Event(TxtAbsence, Some(0), Some(10)),
                       Event(TxtConfortSpaces, Some(10), Some(20))>>
    /\ call.ret.absence
    /\ ~call.ret.confort_global
    /\ call.ret.confort_pieces = {<<"b", "u", "r", "e", "a", "u">>}

\* The rooms each summary drawn for the calendar asks comfort for: 'Confort'
\* every room, 'Confort - Bureau' the bureau, 'CONFORT Chambre' (display name)
\* and 'confort ch1 ' (id) the room ch1, 'Absence' none.
ConcernedRooms(summary) ==
    CASE summary = TxtConfort -> Rooms
      [] summary = TxtConfortBureau -> {"bureau"}
      [] summary \in {TxtConfortChambre, TxtConfortCh1} -> {"ch1"}
      [] OTHER -> {}

\* the events of a list that ask comfort for room p and start after t
Upcoming(events, p, t) ==
    {i \in 1..Len(events) :
        /\ p \in ConcernedRooms(events[i].summary)
        /\ events[i].start # None
        /\ events[i].start[1] > t}

\* ---- C16.  _find_next_comfort_event(room, events) returns, among the events
\* with start > now whose normalized summary equals 'confort', 'confort <room
\* display name lowercased>' or 'confort <room id lowercased>', the one with the
\* earliest start; it returns absent when no such event exists.  A global
\* 'Confort' event is relevant to every room, a 'Confort <room>' event only to
\* that room, and events of other kinds or already started events are never
\* returned.
C16_NextComfortEvent ==
    call.op = "find_next_comfort_event" =>
        LET events == args.calendar_events
            upcoming == Upcoming(events, call.piece_id, call.t)
        IN  /\ call.ret = None <=> upcoming = {}
            /\ call.ret # None =>
                   /\ \E i \in upcoming : events[i] = call.ret[1]
                   /\ \A i \in upcoming : call.ret[1].start[1] <= events[i].start[1]
                   /\ call.ret[1].summary # TxtAbsence
                   /\ call.ret[1].start[1] > call.t
                   /\ call.piece_id \in ConcernedRooms(call.ret[1].summary)

\* the calendar holds a comfort event of the bureau that starts before a
\* comfort event of the room's display name: asked for ch1, the later one is
\* returned
C16_Witness ==
    /\ call.op = "find_next_comfort_event"
    /\ call.piece_id = "ch1"
    /\ args.calendar_events = <<Event(TxtConfortBureau, Some(40), Some(70)),
                                Event(TxtConfortChambre, Some(45), Some(75))>>
    /\ call.ret = Some(Event(TxtConfortChambre, Some(45), Some(75)))

\* ---- C17.  During a tick the learner's history for a room grows only if
\* the room's effective mode for that tick (after any anticipation upgrade) is
\* Comfort and the rate measured from the temperature window is present and
\* within (0.3, 5.0]; in every other mode, or with an absent, zero or negative
\* measured rate, the history is unchanged, and the learned (predicted) rate is
\* never itself recorded as an observation.
C17_LearnsOnlyMeasuredComfort ==
    call.op = "process_room" =>
        LET p == call.piece_id
            before == call.learned_before
            measured == call.vitesse_mesuree
            grows == learner_data[p] # before[p]
        IN  /\ \A q \in Rooms \ {p} : learner_data[q] = before[q]
            /\ grows => /\ call.decision.mode = "confort"
                        /\ InRange(measured)
                        /\ Len(learner_data[p]) = Len(before[p]) + 1
                        /\ learner_data[p][Len(learner_data[p])].rate = round3(measured)
            /\ (\/ call.decision.mode # "confort"
                \/ measured = None
                \/ measured[1] <= 0) => ~grows
            /\ (measured = None /\ call.decision.vitesse_apprise # None) => ~grows

\* the bureau went from 16.8 to 16.9 degrees in 5 minutes and the tick made it
\* Comfort by anticipation: 1.2 degrees per hour is the room's first observation
C17_Witness ==
    /\ call.op = "process_room"
    /\ call.piece_id = "bureau"
    /\ call.decision.source = SOURCE_ANTICIPATION
    /\ call.vitesse_mesuree = <<6, 5>>
    /\ call.learned_before["bureau"] = <<>>
    /\ Len(learner_data["bureau"]) = 1
    /\ learner_data["bureau"][1].rate = 1200

\* the bureau went from 16.8 to 17.5 degrees in 5 minutes in Comfort: 8.4
\* degrees per hour is measured and not learnt
C17_OutOfRange ==
    /\ call.op = "process_room"
    /\ call.piece_id = "bureau"
    /\ call.decision.mode = MODE_CONFORT
    /\ call.vitesse_mesuree = <<42, 5>>
    /\ learner_data = call.learned_before

\* the last _async_update_data call raised UpdateFailed and no call began since
TickFailed == call.op = "update_failed" /\ tick.n = call.tick

\* ---- C18.  A tick either returns a result that contains a RoomDecision for
\* every configured room, or raises a single UpdateFailed and returns no
\* RoomDecision at all; it never publishes decisions for only some of the rooms.
C18_AllRoomsOrUpdateFailed ==
    /\ self_data # None => DOMAIN self_data[1].pieces = Rooms
    /\ TickFailed =>
           /\ call.returned = None
           /\ self_data = call.data_before
           /\ tick.pc = "idle"

\* a first tick returned a decision for every room; the second one decided the
\* bureau, then raised on the room ch1: nothing is returned, the result of the
\* first tick stays
C18_Witness ==
    /\ TickFailed
    /\ tick.n = 2
    /\ call.piece_id = "ch1"
    /\ "bureau" \in DOMAIN call.pieces_data
    /\ call.returned = None
    /\ self_data # None
    /\ DOMAIN self_data[1].pieces = Rooms

\* ---- C19.  As stated: each room's processing within a tick is independent:
\* an error raised while processing one room does not prevent the other
\* configured rooms from being resolved and from receiving their
\* set-temperature commands in that tick, and does not change the other rooms'
\* temperature window, override or learner history.
C19_AsStated ==
    TickFailed =>
        \A q \in Rooms \ {call.piece_id} :
            /\ q \in DOMAIN call.pieces_data
            /\ \A i \in 1..Len(pieces[q].radiateurs) :
                   \E j \in 1..Len(call.commands) :
                       call.commands[j].entity_id = pieces[q].radiateurs[i]
            /\ Window(temp_history, q) = Window(call.temp_history, q)
            /\ (q \in DOMAIN mode_overrides) = (q \in DOMAIN call.mode_overrides)
            /\ q \in DOMAIN mode_overrides => mode_overrides[q] = call.mode_overrides[q]
            /\ learner_data[q] = call.learner_data[q]

\* ---- C20.  If the calendar get_events call fails, the tick does not fail:
\* it proceeds with an empty event list, so no absence or comfort signal is
\* set, no anticipation triggers, and every room without an active override is
\* emitted as Eco (source 'presence' or 'defaut').
C20_CalendarFailureMeansNoEvents ==
    /\ (tick.pc = "rooms" /\ ~tick.fetched) =>
           /\ tick.calendar_events = <<>>
           /\ ~tick.parsed_events.absence
           /\ ~tick.parsed_events.confort_global
           /\ tick.parsed_events.confort_pieces = {}
    /\ (call.op = "process_room" /\ ~call.fetched) =>
           /\ ~call.decision.prechauffage_actif
           /\ call.decision.source # "anticipation"
           /\ ~Unexpired(call.before, call.piece_id, call.t) =>
                  /\ call.decision.mode = "eco"
                  /\ call.decision.source \in {"presence", "defaut"}

\* at minute 5 the calendar holds an active 'Confort' event and someone is
\* home, but get_events failed: the tick went through both rooms and the last
\* one is Eco by default
C20_Witness ==
    /\ call.op = "process_room"
    /\ ~call.fetched
    /\ call.t = 5
    /\ calendar = <<EvChambre, EvConfort>>
    /\ tick.pc = "rooms"
    /\ tick.maison_occupee
    /\ tick.i > Len(RoomOrder)
    /\ DOMAIN tick.pieces_data = Rooms
    /\ call.decision.mode = MODE_ECO
    /\ call.decision.source = SOURCE_DEFAULT

\* The set-temperature calls a tick owes to its first k rooms: one per
\* configured device, in the order of the rooms and of their devices, each
\* with the target temperature the tick decided for the room.
RECURSIVE OwedCommands(_, _)
OwedCommands(decisions, k) ==
    IF k = 0 THEN <<>>
    ELSE LET room == RoomOrder[k]
         IN  OwedCommands(decisions, k - 1)
             \o [i \in 1..Len(pieces[room].radiateurs) |->
                    <<pieces[room].radiateurs[i], decisions[room].consigne>>]

\* ---- C21.  In a tick that completes, for every room exactly one
\* set-temperature command is attempted per configured heating device, carrying
\* that room's effective target temperature of the tick; a failed command is
\* not retried within the tick, does not stop the commands to the room's
\* remaining devices or to the other rooms, and does not fail the tick.
C21_OneCommandPerDevice ==
    /\ tick.pc = "rooms" =>
           [i \in 1..Len(tick.commands) |->
               <<tick.commands[i].entity_id, tick.commands[i].temperature>>]
               = OwedCommands(tick.pieces_data, tick.i - 1)
    /\ (call.op = "process_room" /\ call.tick = tick.n /\ tick.pc = "idle") =>
           /\ self_data # None
           /\ DOMAIN self_data[1].pieces = Rooms
           /\ self_data[1].pieces[call.piece_id] = call.decision

\* the command to the bureau's radiator failed and so did the one to the first
\* radiator of the room ch1: the second radiator of ch1 was commanded all the
\* same, each device once, and the tick is about to return
C21_Witness ==
    /\ tick.pc = "rooms"
    /\ tick.i > Len(RoomOrder)
    /\ Len(tick.commands) = 3
    /\ ~tick.commands[1].ok
    /\ ~tick.commands[2].ok
    /\ tick.commands[3].ok
    /\ tick.commands[3].entity_id = "climate.ch1b"
    /\ tick.commands[3].temperature = tick.pieces_data["ch1"].consigne

\* ---- C22.  A set_mode command whose mode is not one of confort, eco,
\* hors_gel, off is rejected: the override store is unchanged, no refresh is
\* requested and no exception reaches the caller.  Hence, after any sequence of
\* set_mode and reset_mode commands, every stored override has one of those
\* four modes.
C22_InvalidModeRejected ==
    /\ (call.op = "set_mode" /\ call.mode \notin MODES) =>
           /\ mode_overrides = call.before
           /\ refresh_requested = call.refresh_before
           /\ ~call.raised
    /\ \A r \in DOMAIN mode_overrides : mode_overrides[r].mode \in MODES

\* the mode boost was asked for the bureau while the room ch1 had an override
\* and no refresh was pending
C22_Witness ==
    /\ call.op = "set_mode"
    /\ call.mode = "boost"
    /\ call.piece = "bureau"
    /\ call.before # <<>>
    /\ mode_overrides = call.before

\* the override store without the entry of the room, the other entries as
\* they were
OtherOverrides(overrides, room) ==
    [r \in DOMAIN overrides \ {room} |-> overrides[r]]

\* the source of a mode that no override decided
NotOverridden == {SOURCE_CALENDAR, SOURCE_PRESENCE, SOURCE_DEFAULT}

\* ---- C23.  resetModeOverride(room) removes only that room's override (a
\* no-op when it has none) and leaves every other room's override unchanged;
\* resetModeOverride with no room removes every override; in both cases the
\* affected rooms are resolved by calendar, presence and default from the next
\* tick on.
C23_ResetRemovesOnlyTheRoom ==
    /\ (call.op = "reset_mode" /\ call.piece # None) =>
           mode_overrides = OtherOverrides(call.before, call.piece[1])
    /\ (call.op = "reset_mode" /\ call.piece = None) => mode_overrides = <<>>
    /\ (call.op = "resolve_mode" /\ call.piece_id \notin DOMAIN call.before) =>
           /\ call.ret[2] \in NotOverridden
           /\ call.piece_id \notin DOMAIN mode_overrides

\* both rooms had an override and the one of the bureau was reset: the one of
\* the room ch1 is left
C23_Witness ==
    /\ call.op = "reset_mode"
    /\ call.piece = Some("bureau")
    /\ DOMAIN call.before = Rooms
    /\ DOMAIN mode_overrides = {"ch1"}
    /\ mode_overrides["ch1"] = call.before["ch1"]

\* ---- C29.  setModeOverride replaces any existing override of the room and
\* stores the expiry now + duration when a duration above 0 is given, no expiry
\* when none is given; a duration of 0 also yields no expiry (an indefinite
\* override, not one that expires at once).  An override with an expiry stops
\* being applied at the first tick at or after the expiry.
C29_ExpiryOfOverride ==
    /\ (call.op = "set_mode" /\ call.mode \in MODES) =>
           /\ call.piece \in DOMAIN mode_overrides
           /\ mode_overrides[call.piece].mode = call.mode
           /\ mode_overrides[call.piece].expiry
                = IF call.duree # None /\ call.duree[1] > 0
                  THEN Some(call.t + call.duree[1]) ELSE None
           /\ OtherOverrides(mode_overrides, call.piece)
                = OtherOverrides(call.before, call.piece)
    /\ (call.op = "resolve_mode" /\ call.piece_id \in DOMAIN call.before) =>
           LET override == call.before[call.piece_id]
           IN  IF override.expiry # None /\ call.t >= override.expiry[1]
               THEN /\ call.ret[2] \in NotOverridden
                    /\ call.piece_id \notin DOMAIN mode_overrides
               ELSE /\ call.ret = <<override.mode, SOURCE_OVERRIDE>>
                    /\ mode_overrides = call.before

\* an override of the bureau that had an expiry was replaced by one set with
\* the duration 0: it has no expiry
C29_Witness ==
    /\ call.op = "set_mode"
    /\ call.mode \in MODES
    /\ call.duree = Some(0)
    /\ call.piece \in DOMAIN call.before
    /\ call.before[call.piece].expiry # None
    /\ call.before[call.piece].mode # call.mode
    /\ mode_overrides[call.piece].expiry = None

\* the room whose turn of the loop was the last step of the running tick
JustProcessed ==
    /\ call.op = "process_room"
    /\ tick.pc = "rooms"
    /\ call.tick = tick.n
    /\ tick.i > 1
    /\ call.piece_id = RoomOrder[tick.i - 1]

\* ---- C25.  The preheat minutes that the anticipation trigger compares with
\* the time until the room's next comfort event are those needed to bring the
\* room to its Comfort target; so a room that resolves to Eco and whose
\* temperature is below its Comfort target is upgraded to Comfort (source
\* anticipation) in every tick in which its next comfort event starts within
\* the minimum preheat time.  (As stated: the code does not satisfy it.)
C25_AsStated ==
    (/\ JustProcessed
     /\ call.resolved[1] = MODE_ECO
     /\ call.decision.temperature # None
     /\ call.decision.prochain_evenement # None) =>
        LET temperature == call.decision.temperature[1]
            start == call.decision.prochain_evenement[1]
            room == pieces[call.piece_id]
        IN  (/\ temperature < room.temperatures[MODE_CONFORT]
             /\ start > call.t
             /\ start - call.t <= DEFAULT_MIN_PREHEAT_TIME) =>
                /\ call.decision.mode = MODE_CONFORT
                /\ call.decision.source = SOURCE_ANTICIPATION

\* ---- C26.  In any tick in which no configured presence tracker reports
\* exactly home and the room has no active override, the room's emitted mode is
\* Eco or FrostGuard, never Comfort.  (As stated: the code does not satisfy
\* it.)
C26_AsStated ==
    (/\ JustProcessed
     /\ ~tick.maison_occupee
     /\ call.resolved[2] # SOURCE_OVERRIDE) =>
        call.decision.mode \in {MODE_ECO, MODE_HORS_GEL}

\* ---- C28.  The target temperature emitted and commanded for a room in a
\* tick is the room's configured temperature for its effective mode; for an
\* effective mode without entry in the room's temperature map (an Off
\* override) it is the fallback of 19 degrees, and that value is sent to the
\* room's heating devices.
C28_TargetOfEffectiveMode ==
    JustProcessed =>
        LET room == pieces[call.piece_id]
            decision == call.decision
            devices == Len(room.radiateurs)
            sent == Len(tick.commands)
        IN  /\ decision.consigne
                 = IF decision.mode \in {MODE_CONFORT, MODE_ECO, MODE_HORS_GEL}
                   THEN room.temperatures[decision.mode] ELSE 190
            /\ tick.pieces_data[call.piece_id] = decision
            /\ sent >= devices
            /\ \A j \in 1..devices :
                   /\ tick.commands[sent - devices + j].entity_id = room.radiateurs[j]
                   /\ tick.commands[sent - devices + j].temperature = decision.consigne

\* the room ch1, whose Comfort target is 18 degrees, is off by an override: 19
\* degrees are emitted and sent to its two radiators
C28_Witness ==
    /\ JustProcessed
    /\ call.piece_id = "ch1"
    /\ call.decision.mode = MODE_OFF
    /\ call.decision.consigne = 190
    /\ Len(tick.commands) = 3
    /\ tick.commands[2].temperature = 190
    /\ tick.commands[3].temperature = 190

\* ---- C30.  Within one tick every room's decision rests on one consistent
\* classification of each comfort event as upcoming, active or over: an event
\* that the interpreter classified as not yet started at the beginning of the
\* tick is still treated as upcoming by that tick's anticipation check for
\* every room, so no room is emitted as Eco merely because the event's start
\* fell between two clock reads of the tick.  (As stated: the code does not
\* satisfy it.)  The room resolved to Eco by default, so the interpreter saw no
\* comfort event of the room as started; an event of the room that has started
\* when the room is checked started between the two reads.
C30_AsStated ==
    (/\ JustProcessed
     /\ call.resolved = <<MODE_ECO, SOURCE_DEFAULT>>
     /\ call.decision.temps_prechauffage > 0
     /\ \E i \in ActiveAt(call.calendar_events, call.t) :
            call.piece_id \in ConcernedRooms(call.calendar_events[i].summary)) =>
        call.decision.mode = MODE_CONFORT

\* the entry of a key in a store: None when it has none
Entry(f, k) == IF k \in DOMAIN f THEN Some(f[k]) ELSE None

\* a step of a tick: it begins, a room has its turn, or it returns
TickStep == tick' # tick

\* ---- C24.  A tick never adds an override and never changes an override's
\* mode or expiry (an anticipation upgrade included); the only change a tick
\* makes to the override store is deleting entries whose expiry has passed.  So
\* an override that a user command sets or resets while the tick is suspended
\* at an external call is neither lost nor undone by that tick, and the expiry
\* check and the delete of one room are never separated by such a suspension.
C24_TickOnlyDeletesExpired ==
    [][TickStep =>
          \A r \in Rooms :
              \/ Entry(mode_overrides', r) = Entry(mode_overrides, r)
              \/ /\ r \in DOMAIN mode_overrides
                 /\ r \notin DOMAIN mode_overrides'
                 /\ mode_overrides[r].expiry # None
                 /\ mode_overrides[r].expiry[1] <= now
                 /\ call'.op = "process_room"
                 /\ call'.piece_id = r]_vars

\* a tick began with no override of the bureau; while it was suspended, an Eco
\* override of the bureau was set: the room's turn applied it and upgraded the
\* room by anticipation, and the override is stored as it was set
C24_Witness ==
    /\ JustProcessed
    /\ "bureau" \notin DOMAIN tick.began_with
    /\ call.piece_id = "bureau"
    /\ call.resolved = <<MODE_ECO, SOURCE_OVERRIDE>>
    /\ call.decision.source = SOURCE_ANTICIPATION
    /\ "bureau" \in DOMAIN call.before
    /\ mode_overrides = call.before

\* a turn of the room loop
RoomStep == tick' # tick /\ tick.pc = "rooms" /\ tick'.pc = "rooms"

\* room b has the window, the learner history and the override it had
SameRoomState(b) ==
    /\ Entry(temp_history', b) = Entry(temp_history, b)
    /\ learner_data'[b] = learner_data[b]
    /\ get_stats(learner_data', b) = get_stats(learner_data, b)
    /\ Entry(mode_overrides', b) = Entry(mode_overrides, b)

\* ---- C27.  Per-room mutable state is disjoint by room key: recording a
\* temperature sample, recording a heating observation, setting an override,
\* resetting the override of one room, or resolving the mode for room A leaves
\* room B's temperature window, learner history (hence its prediction and
\* statistics) and override unchanged.
C27_RoomsDisjoint ==
    [][/\ RoomStep => \A b \in Rooms \ {call'.piece_id} : SameRoomState(b)
       /\ (call' # call /\ call'.op = "set_mode") =>
              \A b \in Rooms \ {call'.piece} : SameRoomState(b)
       /\ (call'.op = "reset_mode" /\ tick' = tick /\ now' = now /\ call'.piece # None) =>
              \A b \in Rooms \ {call'.piece[1]} : SameRoomState(b)]_vars

\* the turn of the bureau recorded a sample and an observation and deleted the
\* room's expired override, while the room ch1 has a window, a learner history
\* and an override
C27_Witness ==
    /\ JustProcessed
    /\ call.piece_id = "bureau"
    /\ Len(temp_history["bureau"]) = 2
    /\ learner_data["bureau"] # call.learned_before["bureau"]
    /\ "bureau" \in DOMAIN call.before
    /\ "bureau" \notin DOMAIN mode_overrides
    /\ "ch1" \in DOMAIN temp_history
    /\ learner_data["ch1"] = LoadedHistory
    /\ "ch1" \in DOMAIN mode_overrides

====
